---- MODULE Spec2Model ----
(***************************************************************************)
(* Job engine of nexus-os: the Import, Fetch and Embed job registries,     *)
(* their HTTP control endpoints and the runner loops that the SSE stream   *)
(* endpoints drive.                                                        *)
(*                                                                         *)
(* A job is a Python object shared by reference between the registry       *)
(* (store._jobs), the persisted row and every runner that was started on   *)
(* it; the model keeps the object (xjobs), the registry keys (xreg) and    *)
(* the persisted rows (xdb) apart.  Synchronous endpoints run on the       *)
(* thread pool and so interleave with a runner between any two of its      *)
(* steps; a runner step is the code between two suspension points or two   *)
(* reads of the shared job object.                                         *)
(***************************************************************************)
EXTENDS Integers, Sequences, FiniteSets, TLC

\* ---------------------------------------------------------------- bounds
MaxJobs == 2
MaxRuns == 2
NumDocs == 2
NumChunks == 2
NumPages == 2
PageSize == 2
FetchBatch == 2
EmbedBatch == 2
\* size of one behaviour: 2 for each job created and each run started, 1 for
\* each item in the store (document, chunk, upstream page) and each chunk
\* counted as failed
MaxLoad == 8
\* rows ever inserted into document_chunks and into embeddings
MaxChunkId == 3
MaxEmbId == 3
\* records of the reading service, and complete Imports of them
MaxRecords == 3
MaxImports == 2
\* content fetches of all runs together
MaxRequests == 5
\* calls of OpenAIProvider.embed
MaxCalls == 3
\* characters of the path of a URL string
MaxPathLen == 3
\* events waiting in the queue of run_pipeline
MaxQueue == 2
\* threads that call the store and the rate limiter
NumThreads == 2
\* chunks a digest job finds in its date range
MaxFound == 2

JobIds == 1..MaxJobs
Runners == 1..MaxRuns

VARIABLES
  kind,      \* which job engine this behaviour exercises
  act,       \* the operation that produced the current state, and its outcome
  fjobs,     \* FetchJob objects by id
  freg,      \* FetchJobStore._jobs keys
  fdb,       \* rows of table fetch_jobs
  docs,      \* rows of table documents joined with fetch_failures
  frun,      \* run_fetch_job generators
  fmaxdone,  \* per job: largest document id whose processing has finished
  ejobs,     \* EmbedJob objects by id
  ereg,      \* EmbedJobStore._jobs keys
  edb,       \* rows of table embed_jobs
  chunks,    \* per chunk id: number of rows of table embeddings
  erun,      \* run_embed_job generators
  ijobs,     \* ImportJob objects by id
  ireg,      \* ImportJobStore._jobs keys
  idb,       \* rows of table import_jobs
  upstream,  \* pages of the two reading-service endpoints
  irun,      \* stream_import generators
  idelivered, \* per job: upstream records yielded as ITEM
  iended,    \* per job: the job has been cancelled or has failed
  pjobs,     \* PipelineJob objects by id (PipelineJobStore._jobs)
  prun,      \* _run_pipeline_sync generators, one per pipeline job
  last_sync_at, \* app setting last_sync_at: 0 unset, else the time written
  unchunked, \* number of documents with full text and without chunks
  ebulk,     \* the request to a bulk embedding endpoint, while it is served
  usage,     \* number of rows of table api_usage
  store,     \* tables document_chunks, embeddings and embeddings_<dimensions>
  lib,       \* tables documents and highlights, and the Import that fills them
  del,       \* a DELETE request for a job, between its status test and store.delete
  lim,       \* the clock and the DomainRateLimiter of each run_fetch_job
  prov,      \* a call of OpenAIProvider.embed and the requests it has sent
  nurl,      \* a URL string and what normalize_url makes of it
  tiny,      \* number of documents whose full text yields no chunk
  pq,        \* per pipeline job: the event queue between run_in_thread and run_pipeline
  th,        \* threads calling FetchJobStore and DomainRateLimiter methods
  locks,     \* the holder of FetchJobStore._lock and of DomainRateLimiter._lock
  dig        \* the digest jobs and the generated_digests table

fetchVars == <<fjobs, freg, fdb, docs, frun, fmaxdone>>
embedVars == <<ejobs, ereg, edb, chunks, erun>>
importVars == <<ijobs, ireg, idb, upstream, irun, idelivered, iended>>
pipeVars == <<pjobs, prun, last_sync_at, unchunked>>
bulkVars == <<ebulk, usage>>
extVars == <<prov, nurl, tiny, pq, th, locks, dig>>
auxVars == <<bulkVars, store, lib, del, lim, extVars>>
\* every variable of the job engines and of the tables
baseVars ==
  <<fetchVars, embedVars, importVars, pipeVars, bulkVars, store, lib, del, lim>>
vars == <<kind, act, fetchVars, embedVars, importVars, pipeVars, auxVars>>

\* ------------------------------------------------------------- utilities
Max(a, b) == IF a >= b THEN a ELSE b

MinOf(S) == CHOOSE x \in S : \A y \in S : x <= y

RECURSIVE SortedSeq(_)
SortedSeq(S) == IF S = {} THEN <<>> ELSE <<MinOf(S)>> \o SortedSeq(S \ {MinOf(S)})

Take(s, n) == SubSeq(s, 1, IF Len(s) < n THEN Len(s) ELSE n)

SeqRange(s) == {s[i] : i \in 1..Len(s)}

RECURSIVE SumOver(_, _)
SumOver(f, S) == IF S = {} THEN 0 ELSE f[MinOf(S)] + SumOver(f, S \ {MinOf(S)})

\* Python strings are sequences of one-character strings
\* str.find: the first place from start on that holds a character of C, 0: none
Find(s, C, start) ==
  IF \E i \in start..Len(s) : s[i] \in C
  THEN MinOf({i \in start..Len(s) : s[i] \in C}) ELSE 0

\* str.rfind of one character
RFind(s, c) ==
  IF \E i \in 1..Len(s) : s[i] = c
  THEN CHOOSE i \in 1..Len(s) : s[i] = c /\ \A k \in (i + 1)..Len(s) : s[k] # c ELSE 0

\* str.lstrip and str.rstrip of the characters of C
RECURSIVE LStrip(_, _)
LStrip(s, C) == IF s # <<>> /\ Head(s) \in C THEN LStrip(Tail(s), C) ELSE s

RECURSIVE RStrip(_, _)
RStrip(s, C) ==
  IF s # <<>> /\ s[Len(s)] \in C THEN RStrip(SubSeq(s, 1, Len(s) - 1), C) ELSE s

StartsWith(s, p) == Len(s) >= Len(p) /\ SubSeq(s, 1, Len(p)) = p

\* str.replace(old, ""): every occurrence of old, left to right, not overlapping
RECURSIVE Remove(_, _)
Remove(s, old) ==
  IF Len(s) < Len(old) THEN s
  ELSE IF StartsWith(s, old) THEN Remove(SubSeq(s, Len(old) + 1, Len(s)), old)
  ELSE <<Head(s)>> \o Remove(Tail(s), old)

\* str.lower on the letters used here
LowerCase == [A |-> "a", H |-> "h", P |-> "p", T |-> "t"]

Lower(s) == [i \in 1..Len(s) |-> IF s[i] \in DOMAIN LowerCase THEN LowerCase[s[i]] ELSE s[i]]

\* the operation record; unused fields keep their defaults
Act(name, job, run, item, ev, pre) ==
  [name |-> name, job |-> job, run |-> run, item |-> item, ev |-> ev, pre |-> pre]

NoAct == Act("init", 0, 0, 0, "none", "none")

\* ---------------------------------------------------------------- status
Statuses == {"pending", "running", "paused", "cancelled", "completed", "failed"}
Terminal == {"completed", "cancelled"}

\* one engine per behaviour; the other engines stay as constructed
\* (a pipeline behaviour runs its child Embed job on the Embed engine; a
\* stream behaviour is a pipeline behaviour in which the event queue of
\* run_pipeline is followed)
Fetch == kind = "fetch" /\ UNCHANGED <<kind, embedVars, importVars, pipeVars, auxVars>>
Embed ==
  /\ kind \in {"embed", "pipeline", "stream"}
  /\ UNCHANGED <<kind, fetchVars, importVars, pipeVars, auxVars>>
Import == kind = "import" /\ UNCHANGED <<kind, fetchVars, embedVars, pipeVars, auxVars>>
Pipeline ==
  /\ kind \in {"pipeline", "stream"}
  /\ UNCHANGED <<kind, fetchVars, bulkVars, store, lib, del, lim, prov, nurl, tiny, th, locks, dig>>

\* ============================================================ Fetch jobs
FetchJob(st) ==
  [status |-> st, cursor |-> 0, succeeded |-> 0, failed |-> 0, error |-> "none"]

NoFetchJob == FetchJob("absent")

IdleRun == [pc |-> "idle", job |-> 0, batch |-> <<>>, doc |-> 0]

\* a generator that has returned; its slot is not used again
EndRun(run) == [IdleRun EXCEPT !.pc = "done", !.job = run.job]

FetchCreated == {j \in JobIds : fjobs[j].status # "absent"}

\* a store whose get_running finds no job
FetchNoneRunning == {}

\* FetchJobStore.get_running
FetchGetRunning == {j \in freg : fjobs[j].status = "running"}

\* FetchJobStore._persist through FetchJobStore.update: the object is put
\* (back) under its id in the registry and upserted into fetch_jobs
FetchUpdate(j, job) ==
  /\ fjobs' = [fjobs EXCEPT ![j] = job]
  /\ freg' = freg \cup {j}
  /\ fdb' = [fdb EXCEPT ![j] = job]

\* content_fetcher.FetchErrorType and RETRIABLE_ERRORS
FetchErrorType ==
  {"timeout", "http_4xx", "http_5xx", "paywall", "js_required",
   "extraction_failed", "connection_error", "no_content"}

RETRIABLE_ERRORS == {"timeout", "http_5xx", "connection_error"}

\* a row of documents with its row of fetch_failures (failure: error_type,
\* "none" when there is no row); savedby and failedby record the jobs that
\* saved a full text for the document and that wrote a failure row for it
NewDoc == [fulltext |-> FALSE, failure |-> "none", failedby |-> {}, savedby |-> {}]

\* DB.get_documents_for_fetch: url present, no fulltext, no failure row,
\* id > cursor, ordered by id, LIMIT
EligibleWithFailure(d) == ~docs[d].fulltext

EligibleDoc(d) == ~docs[d].fulltext /\ docs[d].failure = "none"

get_documents_for_fetch(limit, cursor) ==
  Take(SortedSeq({d \in DOMAIN docs : EligibleDoc(d) /\ d > cursor}), limit)

\* the size of the behaviour so far
FetchLoad ==
  2 * Cardinality(FetchCreated) + 2 * Cardinality({r \in Runners : frun[r].pc # "idle"})
    + Len(docs)

LowestIdle(run) == MinOf({r \in Runners : run[r].pc = "idle"})

\* ------------------------------------------------ Fetch: HTTP endpoints
\* act.job is the job_id of the response; with a job running the response
\* is {"error": ..., "job_id": running.id} and nothing is created
api_fetch_start ==
  /\ Fetch
  /\ IF FetchGetRunning # {}
       THEN /\ act' = Act("api_fetch_start", MinOf(FetchGetRunning), 0, 0, "error", "running")
            /\ UNCHANGED fetchVars
       ELSE /\ JobIds \ FetchCreated # {}
            /\ FetchLoad < MaxLoad
            /\ \E j \in JobIds \ FetchCreated :
                 /\ j = MinOf(JobIds \ FetchCreated)
                 /\ FetchUpdate(j, FetchJob("pending"))
                 /\ act' = Act("api_fetch_start", j, 0, 0, "created", "none")
            /\ UNCHANGED <<docs, frun, fmaxdone>>

\* the error types DB.clear_retryable_failures deletes the rows of
ClearedErrors == {"timeout", "http_5xx"}

\* POST /api/fetch/retry-failed: db.clear_retryable_failures(); act.item is
\* the number of rows cleared
api_fetch_retry_failed ==
  /\ Fetch
  /\ LET cleared == {d \in DOMAIN docs : docs[d].failure \in ClearedErrors}
     IN /\ docs' = [d \in DOMAIN docs |->
                      IF d \in cleared THEN [docs[d] EXCEPT !.failure = "none"] ELSE docs[d]]
        /\ act' = Act("api_fetch_retry_failed", 0, 0, Cardinality(cleared), "cleared", "none")
  /\ UNCHANGED <<fjobs, freg, fdb, frun, fmaxdone>>

\* the statuses FetchJobStore.cancel accepts
FetchCancellable == {"running", "pending", "paused"}

\* the statuses api_fetch_resume accepts
FetchResumable == {"paused", "failed"}

\* the status FetchJobStore.pause leaves a job of status st with
FetchPause(st) == IF st = "running" THEN "paused" ELSE st

\* the status FetchJobStore.cancel leaves a job of status st with
FetchCancel(st) == IF st \in FetchCancellable THEN "cancelled" ELSE st

\* the status api_fetch_resume leaves a job of status st with
FetchResume(st) == IF st \in FetchResumable THEN "pending" ELSE st

\* A request that the code answers with an error, leaving the job as it
\* was, is no step.
api_fetch_pause(j) ==
  /\ Fetch
  /\ j \in freg
  /\ FetchPause(fjobs[j].status) # fjobs[j].status
  /\ act' = Act("api_fetch_pause", j, 0, 0, "none", fjobs[j].status)
  /\ fjobs' = [fjobs EXCEPT ![j].status = FetchPause(@)]
  /\ fdb' = [fdb EXCEPT ![j] = fjobs'[j]]
  /\ UNCHANGED <<freg, docs, frun, fmaxdone>>

api_fetch_cancel(j) ==
  /\ Fetch
  /\ j \in freg
  /\ FetchCancel(fjobs[j].status) # fjobs[j].status
  /\ act' = Act("api_fetch_cancel", j, 0, 0, "none", fjobs[j].status)
  /\ fjobs' = [fjobs EXCEPT ![j].status = FetchCancel(@)]
  /\ fdb' = [fdb EXCEPT ![j] = fjobs'[j]]
  /\ UNCHANGED <<freg, docs, frun, fmaxdone>>

api_fetch_resume(j) ==
  /\ Fetch
  /\ j \in freg
  /\ FetchResume(fjobs[j].status) # fjobs[j].status
  /\ act' = Act("api_fetch_resume", j, 0, 0, "none", fjobs[j].status)
  /\ FetchUpdate(j, [fjobs[j] EXCEPT !.status = FetchResume(@)])
  /\ UNCHANGED <<docs, frun, fmaxdone>>

\* the endpoint hands the job object to a new run_fetch_job generator
api_fetch_stream(j) ==
  /\ Fetch
  /\ j \in freg
  /\ fjobs[j].status \in {"pending", "running"}
  /\ FetchLoad < MaxLoad
  /\ \E r \in Runners :
       /\ frun[r].pc = "idle"
       /\ r = LowestIdle(frun)
       /\ frun' = [frun EXCEPT ![r] = [IdleRun EXCEPT !.pc = "start", !.job = j]]
       /\ act' = Act("api_fetch_stream", j, r, 0, "none", fjobs[j].status)
  /\ UNCHANGED <<fjobs, freg, fdb, docs, fmaxdone>>

\* ------------------------------------------------- Fetch: run_fetch_job
\* A step of the generator is the code between two suspension points
\* (yield of an event, await of the rate limiter and the HTTP request).

\* job.status = RUNNING; store.update(job); yield STARTED
FetchRunStart(r) ==
  /\ Fetch
  /\ frun[r].pc = "start"
  /\ LET j == frun[r].job IN
       /\ FetchUpdate(j, [fjobs[j] EXCEPT !.status = "running"])
       /\ act' = Act("FetchRunStart", j, r, 0, "started", fjobs[j].status)
  /\ frun' = [frun EXCEPT ![r].pc = "loop"]
  /\ UNCHANGED <<docs, fmaxdone>>

\* for doc in docs: job.cursor_doc_id = doc_id; wait_for_domain(url);
\* fetcher.fetch(url) is awaited: the content-fetch request is in flight
FetchIssue(r, j, batch) ==
  /\ fjobs' = [fjobs EXCEPT ![j].cursor = Head(batch)]
  /\ frun' = [frun EXCEPT ![r].pc = "await", ![r].doc = Head(batch),
                          ![r].batch = Tail(batch)]
  /\ act' = Act("FetchRunNext", j, r, Head(batch), "request", fjobs[j].status)
  /\ UNCHANGED <<freg, fdb>>

\* resumption after a yield: the next document of the batch, or, at the
\* end of the batch, the top of the while loop (store.get, the paused and
\* cancelled tests, get_documents_for_fetch, COMPLETED when it is empty)
FetchRunNext(r) ==
  /\ Fetch
  /\ frun[r].pc = "loop"
  /\ LET j == frun[r].job
         batch == get_documents_for_fetch(FetchBatch, fjobs[j].cursor)
     IN IF frun[r].batch # <<>>
          THEN FetchIssue(r, j, frun[r].batch)
          ELSE IF j \notin freg
            THEN /\ frun' = [frun EXCEPT ![r] = EndRun(frun[r])]
                 /\ act' = Act("FetchRunNext", j, r, 0, "none", fjobs[j].status)
                 /\ UNCHANGED <<fjobs, freg, fdb>>
            ELSE IF fjobs[j].status \in {"paused", "cancelled"}
              THEN /\ frun' = [frun EXCEPT ![r] = EndRun(frun[r])]
                   /\ act' = Act("FetchRunNext", j, r, 0, fjobs[j].status, fjobs[j].status)
                   /\ UNCHANGED <<fjobs, freg, fdb>>
              ELSE IF batch = <<>>
                THEN /\ FetchUpdate(j, [fjobs[j] EXCEPT !.status = "completed"])
                     /\ frun' = [frun EXCEPT ![r] = EndRun(frun[r])]
                     /\ act' = Act("FetchRunNext", j, r, 0, "completed", fjobs[j].status)
                ELSE FetchIssue(r, j, batch)
  /\ UNCHANGED <<docs, fmaxdone>>

\* FetchResult: success, or one of the error types; "dberror" is an
\* exception of the storage calls
FetchOutcomes == {"ok", "dberror"} \cup FetchErrorType

\* the fetch result arrives: save_fulltext / save_fetch_failure, counters,
\* store.update, one event; a storage exception reaches the except handler
FetchRunResponse(r, outcome) ==
  /\ Fetch
  /\ frun[r].pc = "await"
  /\ LET j == frun[r].job
         d == frun[r].doc
     IN CASE outcome = "ok" ->
               /\ docs' = [docs EXCEPT ![d].fulltext = TRUE, ![d].savedby = @ \cup {j}]
               /\ FetchUpdate(j, [fjobs[j] EXCEPT !.succeeded = @ + 1])
               /\ frun' = [frun EXCEPT ![r].pc = "loop"]
               /\ fmaxdone' = [fmaxdone EXCEPT ![j] = Max(@, d)]
               /\ act' = Act("FetchRunResponse", j, r, d, "item_success", fmaxdone[j])
          [] outcome \in FetchErrorType ->
               /\ docs' = [docs EXCEPT ![d].failure = outcome, ![d].failedby = @ \cup {j}]
               /\ FetchUpdate(j, [fjobs[j] EXCEPT !.failed = @ + 1])
               /\ frun' = [frun EXCEPT ![r].pc = "loop"]
               /\ fmaxdone' = [fmaxdone EXCEPT ![j] = Max(@, d)]
               /\ act' = Act("FetchRunResponse", j, r, d, "item_failed", fmaxdone[j])
          [] outcome = "dberror" ->
               /\ FetchUpdate(j, [fjobs[j] EXCEPT !.status = "failed", !.error = "storage"])
               /\ frun' = [frun EXCEPT ![r] = EndRun(frun[r])]
               /\ act' = Act("FetchRunResponse", j, r, d, "failed", fmaxdone[j])
               /\ UNCHANGED <<docs, fmaxdone>>

\* ============================================================ Embed jobs
EmbedJob(st) ==
  [status |-> st, cursor |-> 0, succeeded |-> 0, failed |-> 0, error |-> "none"]

NoEmbedJob == EmbedJob("absent")

\* prevfail: last chunk id of the batch this generator last saw fail retriably
IdleEmbedRun == [pc |-> "idle", job |-> 0, batch |-> <<>>, prevfail |-> 0]

EndEmbedRun(run) == [IdleEmbedRun EXCEPT !.pc = "done", !.job = run.job]

EmbedCreated == {j \in JobIds : ejobs[j].status # "absent"}

\* EmbedJobStore.get_running
EmbedGetRunning == {j \in ereg : ejobs[j].status = "running"}

\* EmbedJobStore.update
EmbedUpdate(j, job) ==
  /\ ejobs' = [ejobs EXCEPT ![j] = job]
  /\ ereg' = ereg \cup {j}
  /\ edb' = [edb EXCEPT ![j] = job]

\* DB.get_chunks_for_embedding: id > cursor, no embedding row for the
\* (provider, model), ordered by id, LIMIT
get_chunks_for_embedding(limit, cursor) ==
  Take(SortedSeq({c \in DOMAIN chunks : chunks[c] = 0 /\ c > cursor}), limit)

\* DB.count_chunks_for_embedding()["pending_chunks"]
PendingChunks == Cardinality({c \in DOMAIN chunks : chunks[c] = 0})

EmbedFailedCount == [j \in JobIds |-> ejobs[j].failed]

EmbedLoad ==
  2 * Cardinality(EmbedCreated) + 2 * Cardinality({r \in Runners : erun[r].pc # "idle"})
    + Len(chunks) + SumOver(EmbedFailedCount, JobIds)

\* ------------------------------------------------ Embed: HTTP endpoints
api_embed_start ==
  /\ Embed
  /\ IF EmbedGetRunning # {}
       THEN /\ act' = Act("api_embed_start", MinOf(EmbedGetRunning), 0, 0, "error", "running")
            /\ UNCHANGED embedVars
       ELSE /\ PendingChunks # 0
            /\ JobIds \ EmbedCreated # {}
            /\ EmbedLoad < MaxLoad
            /\ \E j \in JobIds \ EmbedCreated :
                 /\ j = MinOf(JobIds \ EmbedCreated)
                 /\ EmbedUpdate(j, EmbedJob("pending"))
                 /\ act' = Act("api_embed_start", j, 0, 0, "created", "none")
            /\ UNCHANGED <<chunks, erun>>

\* the statuses EmbedJobStore.cancel accepts
EmbedCancellable == {"running", "pending", "paused"}

\* the statuses api_embed_resume accepts
EmbedResumable == {"paused", "failed"}

\* the status EmbedJobStore.pause leaves a job of status st with
EmbedPause(st) == IF st = "running" THEN "paused" ELSE st

\* the status EmbedJobStore.cancel leaves a job of status st with
EmbedCancel(st) == IF st \in EmbedCancellable THEN "cancelled" ELSE st

\* the status api_embed_resume leaves a job of status st with
EmbedResume(st) == IF st \in EmbedResumable THEN "pending" ELSE st

api_embed_pause(j) ==
  /\ Embed
  /\ j \in ereg
  /\ EmbedPause(ejobs[j].status) # ejobs[j].status
  /\ act' = Act("api_embed_pause", j, 0, 0, "none", ejobs[j].status)
  /\ ejobs' = [ejobs EXCEPT ![j].status = EmbedPause(@)]
  /\ edb' = [edb EXCEPT ![j] = ejobs'[j]]
  /\ UNCHANGED <<ereg, chunks, erun>>

api_embed_cancel(j) ==
  /\ Embed
  /\ j \in ereg
  /\ EmbedCancel(ejobs[j].status) # ejobs[j].status
  /\ act' = Act("api_embed_cancel", j, 0, 0, "none", ejobs[j].status)
  /\ ejobs' = [ejobs EXCEPT ![j].status = EmbedCancel(@)]
  /\ edb' = [edb EXCEPT ![j] = ejobs'[j]]
  /\ UNCHANGED <<ereg, chunks, erun>>

api_embed_resume(j) ==
  /\ Embed
  /\ j \in ereg
  /\ EmbedResume(ejobs[j].status) # ejobs[j].status
  /\ act' = Act("api_embed_resume", j, 0, 0, "none", ejobs[j].status)
  /\ EmbedUpdate(j, [ejobs[j] EXCEPT !.status = EmbedResume(@)])
  /\ UNCHANGED <<chunks, erun>>

\* the endpoint hands the job object to a new run_embed_job generator
api_embed_stream(j) ==
  /\ Embed
  /\ j \in ereg
  /\ ejobs[j].status \in {"pending", "running"}
  /\ EmbedLoad < MaxLoad
  /\ \E r \in Runners :
       /\ erun[r].pc = "idle"
       /\ r = LowestIdle(erun)
       /\ erun' = [erun EXCEPT ![r] = [IdleEmbedRun EXCEPT !.pc = "start", !.job = j]]
       /\ act' = Act("api_embed_stream", j, r, 0, "none", ejobs[j].status)
  /\ UNCHANGED <<ejobs, ereg, edb, chunks>>

\* ------------------------------------------------- Embed: run_embed_job
\* OpenAIProvider(model) raises ValueError without an API key: FAILED;
\* otherwise job.status = RUNNING; store.update(job); yield STARTED
EmbedRunStart(r, provider_ok) ==
  /\ Embed
  /\ erun[r].pc = "start"
  /\ LET j == erun[r].job IN
       IF provider_ok
         THEN /\ EmbedUpdate(j, [ejobs[j] EXCEPT !.status = "running"])
              /\ erun' = [erun EXCEPT ![r].pc = "loop"]
              /\ act' = Act("EmbedRunStart", j, r, 0, "started", ejobs[j].status)
         ELSE /\ EmbedUpdate(j, [ejobs[j] EXCEPT !.status = "failed", !.error = "no_api_key"])
              /\ erun' = [erun EXCEPT ![r] = EndEmbedRun(erun[r])]
              /\ act' = Act("EmbedRunStart", j, r, 0, "failed", ejobs[j].status)
  /\ UNCHANGED chunks

\* top of the while loop: store.get, the paused and cancelled tests,
\* get_chunks_for_embedding, COMPLETED when it is empty, else the provider
\* request for the batch is awaited
EmbedRunNext(r) ==
  /\ Embed
  /\ erun[r].pc = "loop"
  /\ LET j == erun[r].job
         batch == get_chunks_for_embedding(EmbedBatch, ejobs[j].cursor)
     IN IF j \notin ereg
          THEN /\ erun' = [erun EXCEPT ![r] = EndEmbedRun(erun[r])]
               /\ act' = Act("EmbedRunNext", j, r, 0, "none", ejobs[j].status)
               /\ UNCHANGED <<ejobs, ereg, edb>>
          ELSE IF ejobs[j].status \in {"paused", "cancelled"}
            THEN /\ erun' = [erun EXCEPT ![r] = EndEmbedRun(erun[r])]
                 /\ act' = Act("EmbedRunNext", j, r, 0, ejobs[j].status, ejobs[j].status)
                 /\ UNCHANGED <<ejobs, ereg, edb>>
            ELSE IF batch = <<>>
              THEN /\ EmbedUpdate(j, [ejobs[j] EXCEPT !.status = "completed"])
                   /\ erun' = [erun EXCEPT ![r] = EndEmbedRun(erun[r])]
                   /\ act' = Act("EmbedRunNext", j, r, 0, "completed", ejobs[j].status)
              ELSE /\ erun' = [erun EXCEPT ![r].pc = "await", ![r].batch = batch]
                   /\ act' = Act("EmbedRunNext", j, r, Head(batch), "request", ejobs[j].status)
                   /\ UNCHANGED <<ejobs, ereg, edb>>
  /\ UNCHANGED chunks

\* except EmbeddingError, not e.retriable: FAILED, error, store.update,
\* yield FAILED, return
EmbedFatal(r, j) ==
  /\ EmbedUpdate(j, [ejobs[j] EXCEPT !.status = "failed", !.error = "provider"])
  /\ erun' = [erun EXCEPT ![r] = EndEmbedRun(erun[r])]
  /\ act' = Act("EmbedRunResponse", j, r, Head(erun[r].batch), "failed", "fatal")
  /\ UNCHANGED chunks

\* except EmbeddingError, e.retriable: the batch is counted as failed and
\* processed, store.update; the cursor is left where it was
EmbedRetriable(r, j) ==
  /\ EmbedLoad < MaxLoad
  /\ EmbedUpdate(j, [ejobs[j] EXCEPT !.failed = @ + Len(erun[r].batch)])
  /\ erun' = [erun EXCEPT ![r].pc = "loop",
                          ![r].prevfail = erun[r].batch[Len(erun[r].batch)],
                          ![r].batch = <<>>]
  /\ act' = Act("EmbedRunResponse", j, r, Head(erun[r].batch), "none", "retriable")
  /\ UNCHANGED chunks

\* save_embeddings_batch inserts one row per chunk; the cursor moves to the
\* last chunk of the batch; store.update; yield BATCH_COMPLETE
EmbedSaved(r, j) ==
  /\ chunks' = [c \in DOMAIN chunks |->
                  IF c \in SeqRange(erun[r].batch) THEN chunks[c] + 1 ELSE chunks[c]]
  /\ EmbedUpdate(j, [ejobs[j] EXCEPT !.cursor = erun[r].batch[Len(erun[r].batch)],
                                     !.succeeded = @ + Len(erun[r].batch)])
  /\ erun' = [erun EXCEPT ![r].pc = "loop", ![r].prevfail = 0, ![r].batch = <<>>]
  /\ act' = Act("EmbedRunResponse", j, r, Head(erun[r].batch), "batch_complete", "ok")

\* except Exception (transport or storage error): FAILED, store.update,
\* yield FAILED
EmbedUnexpected(r, j) ==
  /\ EmbedUpdate(j, [ejobs[j] EXCEPT !.status = "failed", !.error = "unexpected"])
  /\ erun' = [erun EXCEPT ![r] = EndEmbedRun(erun[r])]
  /\ act' = Act("EmbedRunResponse", j, r, Head(erun[r].batch), "failed", "exception")
  /\ UNCHANGED chunks

EmbedOutcomes == {"ok", "retriable", "fatal", "exception"}

\* provider.embed(texts) returns or raises
EmbedRunResponse(r, outcome) ==
  /\ Embed
  /\ erun[r].pc = "await"
  /\ LET j == erun[r].job
     IN CASE outcome = "ok" -> EmbedSaved(r, j)
          [] outcome = "retriable" -> EmbedRetriable(r, j)
          [] outcome = "fatal" -> EmbedFatal(r, j)
          [] outcome = "exception" -> EmbedUnexpected(r, j)

\* =========================================================== Import jobs
\* a cursor is the index of the page to request; 0 is None (the first page)
ImportJob(st) ==
  [status |-> st, reader_cursor |-> 0, export_cursor |-> 0,
   reader_done |-> FALSE, export_done |-> FALSE, error |-> "none"]

NoImportJob == ImportJob("absent")

\* page: the pageCursor parameter; next: nextPageCursor of the response;
\* idx: position in the results of the page
IdleImportRun ==
  [pc |-> "idle", job |-> 0, phase |-> "reader", page |-> 0, next |-> 0, idx |-> 0]

EndImportRun(run) == [IdleImportRun EXCEPT !.pc = "done", !.job = run.job]

ImportCreated == {j \in JobIds : ijobs[j].status # "absent"}

\* ImportJobStore.update
ImportUpdate(j, job) ==
  /\ ijobs' = [ijobs EXCEPT ![j] = job]
  /\ ireg' = ireg \cup {j}
  /\ idb' = [idb EXCEPT ![j] = job]

\* the reading service: the page a request with pageCursor c returns
PageOf(c) == IF c = 0 THEN 1 ELSE c

\* results of the response: every page of an endpoint holds PageSize records
PageLen(phase, c) == IF PageOf(c) <= upstream[phase] THEN PageSize ELSE 0

\* nextPageCursor of the response
NextCursor(phase, c) == IF PageOf(c) < upstream[phase] THEN PageOf(c) + 1 ELSE 0

AllRecords ==
  {<<ph, q, i>> : ph \in {"reader", "export"}, q \in 1..NumPages, i \in 1..PageSize}

UpstreamRecords == {rec \in AllRecords : rec[2] <= upstream[rec[1]]}

ImportLoad ==
  2 * Cardinality(ImportCreated) + 2 * Cardinality({r \in Runners : irun[r].pc # "idle"})
    + upstream["reader"] + upstream["export"]

\* ----------------------------------------------- Import: HTTP endpoints
\* store.create(); store.update(job): no test of the jobs already there
readwise_import_start ==
  /\ Import
  /\ JobIds \ ImportCreated # {}
  /\ ImportLoad < MaxLoad
  /\ \E j \in JobIds \ ImportCreated :
       /\ j = MinOf(JobIds \ ImportCreated)
       /\ ImportUpdate(j, ImportJob("pending"))
       /\ act' = Act("readwise_import_start", j, 0, 0, "none", "none")
  /\ UNCHANGED <<upstream, irun, idelivered, iended>>

\* the statuses ImportJobStore.cancel accepts
ImportCancellable == {"running", "pending"}

\* the statuses readwise_import_resume accepts
ImportResumable == {"paused"}

\* the status readwise_import_pause leaves a job of status st with
ImportPause(st) == IF st = "running" THEN "paused" ELSE st

\* the status ImportJobStore.cancel leaves a job of status st with
ImportCancel(st) == IF st \in ImportCancellable THEN "cancelled" ELSE st

\* the status readwise_import_resume leaves a job of status st with
ImportResume(st) == IF st \in ImportResumable THEN "pending" ELSE st

readwise_import_pause(j) ==
  /\ Import
  /\ j \in ireg
  /\ ImportPause(ijobs[j].status) # ijobs[j].status
  /\ act' = Act("readwise_import_pause", j, 0, 0, "none", "none")
  /\ ImportUpdate(j, [ijobs[j] EXCEPT !.status = ImportPause(@)])
  /\ UNCHANGED <<upstream, irun, idelivered, iended>>

readwise_import_resume(j) ==
  /\ Import
  /\ j \in ireg
  /\ ImportResume(ijobs[j].status) # ijobs[j].status
  /\ act' = Act("readwise_import_resume", j, 0, 0, "none", "none")
  /\ ImportUpdate(j, [ijobs[j] EXCEPT !.status = ImportResume(@)])
  /\ UNCHANGED <<upstream, irun, idelivered, iended>>

readwise_job_cancel(j) ==
  /\ Import
  /\ j \in ireg
  /\ ImportCancel(ijobs[j].status) # ijobs[j].status
  /\ act' = Act("readwise_job_cancel", j, 0, 0, "none", "none")
  /\ ijobs' = [ijobs EXCEPT ![j].status = ImportCancel(@)]
  /\ idb' = [idb EXCEPT ![j] = ijobs'[j]]
  /\ iended' = [iended EXCEPT ![j] = TRUE]
  /\ UNCHANGED <<ireg, upstream, irun, idelivered>>

\* the endpoint looks the job up and iterates client.stream_import(job);
\* the status of the job is not read
readwise_import_stream(j) ==
  /\ Import
  /\ j \in ireg
  /\ ImportLoad < MaxLoad
  /\ \E r \in Runners :
       /\ irun[r].pc = "idle"
       /\ r = LowestIdle(irun)
       /\ irun' = [irun EXCEPT ![r] = [IdleImportRun EXCEPT !.pc = "start", !.job = j]]
       /\ act' = Act("readwise_import_stream", j, 0, 0, "none", "none")
  /\ UNCHANGED <<ijobs, ireg, idb, upstream, idelivered, iended>>

\* ------------------------------------------------ Import: stream_import
\* job.reader_cursor / job.export_cursor and the done flags, by phase
GetCursor(job, phase) ==
  IF phase = "reader" THEN job.reader_cursor ELSE job.export_cursor

SetCursor(job, phase, c) ==
  IF phase = "reader" THEN [job EXCEPT !.reader_cursor = c]
                      ELSE [job EXCEPT !.export_cursor = c]

IsDone(job, phase) == IF phase = "reader" THEN job.reader_done ELSE job.export_done

SetDone(job, phase) ==
  IF phase = "reader" THEN [job EXCEPT !.reader_done = TRUE, !.reader_cursor = 0]
                      ELSE [job EXCEPT !.export_done = TRUE, !.export_cursor = 0]

\* What the generator does from a point of its code up to its next yield,
\* its next request to the reading service or its return: the job as it
\* leaves it, its own position, and the event it yields (if any).
Step(job, run, ev) == [job |-> job, run |-> run, ev |-> ev]

\* self._request_with_retry("GET", ...) with params["pageCursor"] = c
Request(job, run, phase, c) ==
  Step(job, [run EXCEPT !.pc = "await", !.phase = phase, !.page = c, !.idx = 0], "request")

\* job.status = COMPLETED; yield COMPLETED
Complete(job, run) ==
  Step([job EXCEPT !.status = "completed"], EndImportRun(run), "completed")

\* the export phase of stream_import and the tests after it; the loop of
\* _stream_export_api tests the status before its first request
ExportPhase(job, run) ==
  IF job.export_done THEN Complete(job, run)
  ELSE Request(job, run, "export", job.export_cursor)

\* the tests after a phase: PAUSED is yielded, CANCELLED returns silently
AfterPhase(job, run) ==
  IF job.status = "paused" THEN Step(job, EndImportRun(run), "paused")
  ELSE IF job.status = "cancelled" THEN Step(job, EndImportRun(run), "none")
  ELSE IF run.phase = "reader" THEN ExportPhase(job, run)
  ELSE Complete(job, run)

\* after "for doc in results": "Update cursor for next page" and the test
\* at the top of the page loop, or the phase is done
PageEnd(job, run) ==
  IF run.next # 0
    THEN IF job.status \in {"paused", "cancelled"}
           THEN AfterPhase(SetCursor(job, run.phase, run.next), run)
           ELSE Request(SetCursor(job, run.phase, run.next), run, run.phase, run.next)
    ELSE AfterPhase(SetDone(job, run.phase), run)

\* one turn of "for doc in results" for the record at position idx: the
\* paused and cancelled test, then job.reader_cursor = next_cursor
\* (job.export_cursor in the export phase) and yield ITEM
Item(job, run, idx) ==
  IF idx > PageLen(run.phase, run.page) THEN PageEnd(job, run)
  ELSE IF job.status \in {"paused", "cancelled"} THEN AfterPhase(job, run)
  ELSE Step(SetCursor(job, run.phase, run.next),
            [run EXCEPT !.pc = "yield", !.idx = idx], "item")

\* the events of stream_import; the endpoint calls store.update(job) for
\* each and saves the article of an ITEM
Yields == {"item", "paused", "completed", "error"}

\* the generator has run up to st
ImportRan(r, j, st, name) ==
  /\ ijobs' = [ijobs EXCEPT ![j] = st.job]
  /\ irun' = [irun EXCEPT ![r] = st.run]
  /\ idb' = IF st.ev \in Yields THEN [idb EXCEPT ![j] = st.job] ELSE idb
  /\ ireg' = IF st.ev \in Yields THEN ireg \cup {j} ELSE ireg
  /\ idelivered' = IF st.ev = "item"
                     THEN [idelivered EXCEPT ![j] =
                             @ \cup {<<st.run.phase, PageOf(st.run.page), st.run.idx>>}]
                     ELSE idelivered
  /\ iended' = IF st.ev = "error" THEN [iended EXCEPT ![j] = TRUE] ELSE iended
  /\ act' = Act(name, j, 0, 0, st.ev, "none")
  /\ UNCHANGED upstream

\* first next(): job.status = RUNNING, whatever it was; the reader phase
\* unless reader_done
ImportRunStart(r) ==
  /\ Import
  /\ irun[r].pc = "start"
  /\ LET j == irun[r].job
         job == [ijobs[j] EXCEPT !.status = "running"]
     IN ImportRan(r, j,
                  IF job.reader_done THEN AfterPhase(job, irun[r])
                  ELSE Request(job, irun[r], "reader", job.reader_cursor),
                  "ImportRunStart")

\* the reading service answers: the page and nextPageCursor, or an
\* exception that reaches stream_import's handler: FAILED, error, yield ERROR
ImportRunResponse(r, ok) ==
  /\ Import
  /\ irun[r].pc = "await"
  /\ LET j == irun[r].job
         run == [irun[r] EXCEPT !.next = NextCursor(irun[r].phase, irun[r].page)]
     IN ImportRan(r, j,
                  IF ok THEN Item(ijobs[j], run, 1)
                  ELSE Step([ijobs[j] EXCEPT !.status = "failed", !.error = "upstream"],
                            EndImportRun(run), "error"),
                  "ImportRunResponse")

\* next() after an ITEM
ImportRunNext(r) ==
  /\ Import
  /\ irun[r].pc = "yield"
  /\ LET j == irun[r].job
     IN ImportRan(r, j, Item(ijobs[j], irun[r], irun[r].idx + 1),
                  "ImportRunNext")

\* ========================================================= Pipeline jobs
\* pipeline bound: documents waiting to be chunked when the behaviour starts
NumUnchunked == 1
\* documents with a full text shorter than MIN_CHUNK_SIZE
NumTiny == 1

\* DB.get_documents_for_chunking: the documents with full text and without
\* a row in document_chunks (their number; LIMIT 50 is never reached here)
get_documents_for_chunking == unchunked + tiny

\* PipelinePhase, in the order of the enum
Phases == <<"idle", "import", "chunk", "embed", "index", "done">>

PhaseIndex(ph) == CHOOSE i \in 1..Len(Phases) : Phases[i] = ph

PipelineJob(st) ==
  [status |-> st, phase |-> "idle", import_job_id |-> 0, embed_job_id |-> 0,
   error |-> "none"]

NoPipelineJob == PipelineJob("absent")

\* a _run_pipeline_sync generator in its thread: skip: skip_import; since:
\* the last_sync_at it read (updated_after); er: the run_embed_job generator
\* of its child; last: the event it yielded last; finished: the phases it
\* has completed; ctl, ctl_phase: the last pause or cancel that took effect
\* on its job and the phase the job was in
IdlePipeRun ==
  [pc |-> "idle", skip |-> FALSE, since |-> 0, er |-> 0, last |-> "none",
   finished |-> <<>>, ctl |-> "none", ctl_phase |-> "none"]

\* the parameters ReadwiseClient.stream_import declares besides self
StreamImportParams == {"job", "url_index"}

\* the arguments _run_pipeline_sync passes to it
StreamImportCall == {"job", "url_index", "updated_after"}

\* check_control_status: the event to stop with, "none" to go on
check_control_status(j) ==
  CASE pjobs[j].status = "paused" -> "pipeline_paused"
    [] pjobs[j].status = "cancelled" -> "pipeline_cancelled"
    [] OTHER -> "none"

\* a run that leaves the import out whatever it was asked
PhaseAlwaysChunk(skip_import) == "chunk"

\* the phase _run_pipeline_sync enters first
PhaseAfterStart(skip_import) == IF skip_import THEN "chunk" ELSE "import"

\* a run that stamps the setting however it ends
SyncTimeAlways(ev, t) == t + 1

\* the last_sync_at setting after a run whose last event is ev: only the
\* path that yields PIPELINE_COMPLETE calls db.set_setting
SyncTimeAfter(ev, t) == IF ev = "pipeline_complete" THEN t + 1 ELSE t

PipelineCreated == {j \in JobIds : pjobs[j].status # "absent"}

\* PipelineJobStore.get_running
PipelineGetRunning == {j \in JobIds : pjobs[j].status = "running"}

\* the statuses PipelineJobStore.cancel accepts
PipelineCancellable == {"running", "pending", "paused"}

\* the status PipelineJobStore.pause leaves a job of status st with
PipelinePause(st) == IF st = "running" THEN "paused" ELSE st

\* the status PipelineJobStore.cancel leaves a job of status st with
PipelineCancel(st) == IF st \in PipelineCancellable THEN "cancelled" ELSE st

\* run_pipeline: event_queue (a queue.Queue, first in first out), the
\* end-of-stream markers (None) put so far, and what the consumer has seen
NoQueue == [queue |-> <<>>, markers |-> 0, got |-> "none", closed |-> FALSE]

\* run_in_thread: `for event in _run_pipeline_sync(...): event_queue.put(event)`
\* puts what the generator yields (of the events of one step the last one is
\* followed; a step without an event puts nothing)
Yielded(j) ==
  IF kind = "stream" /\ act'.ev # "none"
    THEN /\ Len(pq[j].queue) < MaxQueue
         /\ pq' = [pq EXCEPT ![j].queue = Append(@, prun'[j].last)]
    ELSE UNCHANGED pq

\* ----------------------------------------------- Pipeline: its requests
\* POST /api/pipeline/start: a job is created unless one is running, and
\* run_pipeline starts its thread
api_pipeline_start(skip_import) ==
  /\ Pipeline
  /\ PipelineGetRunning = {}
  /\ JobIds \ PipelineCreated # {}
  /\ \E j \in JobIds \ PipelineCreated :
       /\ j = MinOf(JobIds \ PipelineCreated)
       /\ pjobs' = [pjobs EXCEPT ![j] = PipelineJob("pending")]
       /\ prun' = [prun EXCEPT ![j] = [IdlePipeRun EXCEPT !.pc = "start", !.skip = skip_import]]
       /\ act' = Act("api_pipeline_start", j, 0, 0, "created", "none")
  /\ UNCHANGED <<last_sync_at, unchunked, embedVars, importVars, pq>>

\* PipelineJobStore.pause
pipeline_pause(j) ==
  /\ Pipeline
  /\ PipelinePause(pjobs[j].status) # pjobs[j].status
  /\ pjobs' = [pjobs EXCEPT ![j].status = PipelinePause(@)]
  /\ prun' = [prun EXCEPT ![j].ctl = "paused", ![j].ctl_phase = pjobs[j].phase]
  /\ act' = Act("pipeline_pause", j, 0, 0, "none", pjobs[j].status)
  /\ UNCHANGED <<last_sync_at, unchunked, embedVars, importVars, pq>>

\* PipelineJobStore.cancel
pipeline_cancel(j) ==
  /\ Pipeline
  /\ PipelineCancel(pjobs[j].status) # pjobs[j].status
  /\ pjobs' = [pjobs EXCEPT ![j].status = PipelineCancel(@)]
  /\ prun' = [prun EXCEPT ![j].ctl = "cancelled", ![j].ctl_phase = pjobs[j].phase]
  /\ act' = Act("pipeline_cancel", j, 0, 0, "none", pjobs[j].status)
  /\ UNCHANGED <<last_sync_at, unchunked, embedVars, importVars, pq>>

\* -------------------------------------------- Pipeline: _run_pipeline_sync
\* the generator returns after yielding ev
PipeEnd(j, run, ev) ==
  /\ prun' = [prun EXCEPT ![j] = [run EXCEPT !.pc = "done", !.last = ev]]
  /\ last_sync_at' = SyncTimeAfter(ev, last_sync_at)

\* if stop_event: yield stop_event; return
PipeStop(j, name) ==
  /\ PipeEnd(j, prun[j], check_control_status(j))
  /\ act' = Act(name, j, 0, 0, check_control_status(j), pjobs[j].status)
  /\ UNCHANGED pjobs

\* except Exception: FAILED, error, store.update, yield PIPELINE_FAILED
PipeFail(j, run, name, err) ==
  /\ pjobs' = [pjobs EXCEPT ![j].status = "failed", ![j].error = err]
  /\ PipeEnd(j, run, "pipeline_failed")
  /\ act' = Act(name, j, 0, 0, "pipeline_failed", pjobs[j].status)

\* job.status = RUNNING; store.update(job); the first phase is entered and
\* its PHASE_START yielded
PipeRunStart(j) ==
  /\ Pipeline
  /\ prun[j].pc = "start"
  /\ pjobs' = [pjobs EXCEPT ![j].status = "running",
                            ![j].phase = PhaseAfterStart(prun[j].skip)]
  /\ prun' = [prun EXCEPT ![j].pc = IF PhaseAfterStart(prun[j].skip) = "import"
                                       THEN "import_check" ELSE "chunk",
                          ![j].last = "phase_start"]
  /\ act' = Act("PipeRunStart", j, 0, 0, "phase_start", pjobs[j].status)
  /\ UNCHANGED <<last_sync_at, unchunked, embedVars, importVars>>
  /\ Yielded(j)

\* IMPORT: check_control_status before the API is used, then
\* import_store.create() and job.import_job_id
PipeImportCheck(j) ==
  /\ Pipeline
  /\ prun[j].pc = "import_check"
  /\ IF check_control_status(j) # "none"
       THEN /\ PipeStop(j, "PipeImportCheck")
            /\ UNCHANGED importVars
       ELSE /\ JobIds \ ImportCreated # {}
            /\ LET i == MinOf(JobIds \ ImportCreated)
               IN /\ ImportUpdate(i, ImportJob("pending"))
                  /\ pjobs' = [pjobs EXCEPT ![j].import_job_id = i]
                  /\ act' = Act("PipeImportCheck", j, 0, i, "none", pjobs[j].status)
            /\ prun' = [prun EXCEPT ![j].pc = "import_call"]
            /\ UNCHANGED <<last_sync_at, upstream, irun, idelivered, iended>>
  /\ UNCHANGED <<unchunked, embedVars>>
  /\ Yielded(j)

\* IMPORT: db.get_setting("last_sync_at") gives updated_after, and
\* client.stream_import(import_job, url_index=..., updated_after=...) is
\* called with a keyword the method does not declare: the call raises
\* TypeError before the generator is made, and the handler of
\* _run_pipeline_sync ends the run. The loop over the import events,
\* with its import_store.pause and import_store.cancel, is never entered.
PipeImportCall(j) ==
  /\ Pipeline
  /\ prun[j].pc = "import_call"
  /\ StreamImportCall \ StreamImportParams # {}
  /\ PipeFail(j, [prun[j] EXCEPT !.since = last_sync_at], "PipeImportCall", "type_error")
  /\ UNCHANGED <<unchunked, embedVars, importVars>>
  /\ Yielded(j)

\* CHUNK: check_control_status, then one batch of up to 50 documents: every
\* document of it whose chunk_document is not empty gets its chunks (one per
\* document here) with save_chunks, PHASE_PROGRESS is yielded and
\* get_documents_for_chunking is asked again; `while docs` ends when it
\* returns nothing: PHASE_COMPLETE, and the EMBED phase is entered
PipeChunk(j) ==
  /\ Pipeline
  /\ prun[j].pc = "chunk"
  /\ IF check_control_status(j) # "none"
       THEN /\ PipeStop(j, "PipeChunk")
            /\ UNCHANGED <<unchunked, chunks>>
       ELSE /\ chunks' = chunks \o [c \in 1..unchunked |-> 0]
            /\ unchunked' = 0
            /\ IF get_documents_for_chunking' = 0
                 THEN /\ pjobs' = [pjobs EXCEPT ![j].phase = "embed"]
                      /\ prun' = [prun EXCEPT ![j].pc = "embed_check",
                                              ![j].finished = Append(@, "chunk"),
                                              ![j].last = "phase_start"]
                      /\ act' = Act("PipeChunk", j, 0, unchunked, "phase_complete",
                                    pjobs[j].status)
                 ELSE /\ prun' = [prun EXCEPT ![j].last = "phase_progress"]
                      /\ act' = Act("PipeChunk", j, 0, get_documents_for_chunking,
                                    "phase_progress", pjobs[j].status)
                      /\ UNCHANGED pjobs
            /\ UNCHANGED last_sync_at
  /\ UNCHANGED <<ejobs, ereg, edb, erun, importVars>>
  /\ Yielded(j)

\* EMBED: check_control_status; with no pending chunk the phase is
\* complete; otherwise embed_store.create() and asyncio.run of a coroutine
\* that drives run_embed_job to its end
PipeEmbedCheck(j) ==
  /\ Pipeline
  /\ prun[j].pc = "embed_check"
  /\ IF check_control_status(j) # "none"
       THEN /\ PipeStop(j, "PipeEmbedCheck")
            /\ UNCHANGED embedVars
       ELSE IF PendingChunks = 0
         THEN /\ pjobs' = [pjobs EXCEPT ![j].phase = "index"]
              /\ prun' = [prun EXCEPT ![j].pc = "index",
                                      ![j].finished = Append(@, "embed"),
                                      ![j].last = "phase_start"]
              /\ act' = Act("PipeEmbedCheck", j, 0, 0, "phase_complete", pjobs[j].status)
              /\ UNCHANGED <<last_sync_at, embedVars>>
         ELSE /\ JobIds \ EmbedCreated # {}
              /\ \E r \in Runners :
                   /\ erun[r].pc = "idle"
                   /\ r = LowestIdle(erun)
                   /\ LET e == MinOf(JobIds \ EmbedCreated)
                      IN /\ EmbedUpdate(e, EmbedJob("pending"))
                         /\ erun' = [erun EXCEPT ![r] = [IdleEmbedRun EXCEPT !.pc = "start", !.job = e]]
                         /\ pjobs' = [pjobs EXCEPT ![j].embed_job_id = e]
                         /\ prun' = [prun EXCEPT ![j].pc = "embed_wait", ![j].er = r,
                                                 ![j].last = "phase_progress"]
                         /\ act' = Act("PipeEmbedCheck", j, r, e, "phase_progress", pjobs[j].status)
              /\ UNCHANGED <<last_sync_at, chunks>>
  /\ UNCHANGED <<unchunked, importVars>>
  /\ Yielded(j)

\* EMBED: asyncio.run has returned the events of the finished run_embed_job;
\* only now check_control_status is called again: on a stop
\* embed_store.pause or embed_store.cancel, else PHASE_COMPLETE and INDEX
PipeEmbedDone(j) ==
  /\ Pipeline
  /\ prun[j].pc = "embed_wait"
  /\ erun[prun[j].er].pc = "done"
  /\ LET e == pjobs[j].embed_job_id
         st == IF check_control_status(j) = "pipeline_paused"
                 THEN EmbedPause(ejobs[e].status) ELSE EmbedCancel(ejobs[e].status)
     IN IF check_control_status(j) # "none"
          THEN /\ PipeStop(j, "PipeEmbedDone")
               /\ ejobs' = [ejobs EXCEPT ![e].status = st]
               /\ edb' = [edb EXCEPT ![e] = ejobs'[e]]
          ELSE /\ pjobs' = [pjobs EXCEPT ![j].phase = "index"]
               /\ prun' = [prun EXCEPT ![j].pc = "index",
                                       ![j].finished = Append(@, "embed"),
                                       ![j].last = "phase_start"]
               /\ act' = Act("PipeEmbedDone", j, prun[j].er, e, "phase_complete", pjobs[j].status)
               /\ UNCHANGED <<last_sync_at, ejobs, edb>>
  /\ UNCHANGED <<unchunked, ereg, chunks, erun, importVars>>
  /\ Yielded(j)

\* INDEX and DONE: db.rebuild_fts() returns or raises; phase DONE and
\* status COMPLETED without a control check, db.set_setting("last_sync_at"),
\* yield PIPELINE_COMPLETE
PipeIndex(j, ok) ==
  /\ Pipeline
  /\ prun[j].pc = "index"
  /\ IF ok
       THEN /\ pjobs' = [pjobs EXCEPT ![j].phase = "done", ![j].status = "completed"]
            /\ PipeEnd(j, [prun[j] EXCEPT !.finished = Append(@, "index")], "pipeline_complete")
            /\ act' = Act("PipeIndex", j, 0, 0, "pipeline_complete", pjobs[j].status)
       ELSE PipeFail(j, prun[j], "PipeIndex", "index")
  /\ UNCHANGED <<unchunked, embedVars, importVars>>
  /\ Yielded(j)

\* --------------------------------------------- Pipeline: run_pipeline
Stream ==
  kind = "stream" /\ UNCHANGED <<kind, baseVars, pipeVars, prov, nurl, tiny, th, locks, dig>>

\* run_in_thread, finally: the generator has returned and None is put
ThreadFinally(j) ==
  /\ Stream
  /\ prun[j].pc = "done"
  /\ pq[j].markers = 0
  /\ pq' = [pq EXCEPT ![j].queue = Append(@, "None"), ![j].markers = @ + 1]
  /\ act' = Act("ThreadFinally", j, 0, 0, "None", "none")

\* run_pipeline: event = event_queue.get(); None ends the loop, every other
\* event is yielded to the SSE response
StreamGet(j) ==
  /\ Stream
  /\ ~pq[j].closed
  /\ pq[j].queue # <<>>
  /\ pq' = [pq EXCEPT ![j].queue = Tail(@),
                      ![j].got = IF Head(pq[j].queue) = "None" THEN @ ELSE Head(pq[j].queue),
                      ![j].closed = Head(pq[j].queue) = "None"]
  /\ act' = Act("StreamGet", j, 0, 0, Head(pq[j].queue), "none")

\* ------------------------------------------- the bulk embedding endpoints
\* POST /api/embeddings/generate-fast and POST /api/embeddings/generate-chunks
\* select the chunks without an embedding for the (provider, model), await
\* the provider and then insert one row per selected chunk.  Neither looks
\* at the Embed job registry.  Only generate-chunks writes the usage ledger,
\* and only when its batch succeeded.
IdleBulk == [pc |-> "idle", op |-> "none", ids |-> {}]

BulkSelect(op) ==
  /\ kind = "embed"
  /\ ebulk.pc = "idle"
  /\ PendingChunks > 0
  /\ ebulk' = [pc |-> "await", op |-> op, ids |-> {c \in DOMAIN chunks : chunks[c] = 0}]
  /\ act' = Act(op, 0, 0, 0, "select", "idle")
  /\ UNCHANGED <<kind, fetchVars, embedVars, importVars, pipeVars, usage, store, lib,
               del, lim, extVars>>

api_generate_embeddings_fast == BulkSelect("api_generate_embeddings_fast")

api_generate_chunk_embeddings == BulkSelect("api_generate_chunk_embeddings")

\* the provider's answer to the bulk request: the rows are saved with
\* save_embeddings_batch, or EmbeddingError ends the request
BulkResponse(ok) ==
  /\ kind = "embed"
  /\ ebulk.pc = "await"
  /\ ebulk' = [ebulk EXCEPT !.pc = "done"]
  /\ chunks' = [c \in DOMAIN chunks |->
                 IF ok /\ c \in ebulk.ids THEN chunks[c] + 1 ELSE chunks[c]]
  /\ usage' = IF ok /\ ebulk.op = "api_generate_chunk_embeddings" THEN usage + 1 ELSE usage
  /\ act' = Act("BulkResponse", 0, 0, 0, IF ok THEN "saved" ELSE "error", ebulk.op)
  /\ UNCHANGED <<kind, fetchVars, ejobs, ereg, edb, erun, importVars, pipeVars, store, lib,
                 del, lim, extVars>>

\* ------------------------------------------- Store: chunks and embeddings
\* document_chunks.id and embeddings.id are AUTOINCREMENT, so an id is never
\* given twice.  The connection never turns foreign keys on, so deleting a
\* chunk leaves its embeddings rows in place.
StoreDocs == 1..2

Models == {"text-embedding-3-small", "nomic-embed-text"}

VecTables == {768, 1024, 1536, 3072}

\* every model reported with the same dimensions
DimensionsAllSame(m) == 768

\* EmbeddingProvider.dimensions
Dimensions(m) == IF m = "text-embedding-3-small" THEN 1536 ELSE 768

EmptyStore ==
  [chunks |-> {}, lastchunk |-> 0, emb |-> {}, lastemb |-> 0, vec |-> [d \in VecTables |-> {}]]

Store ==
  /\ kind = "store"
  /\ UNCHANGED <<kind, fetchVars, embedVars, importVars, pipeVars, bulkVars, lib, del,
               lim, extVars>>

LiveChunks == {c.id : c \in store.chunks}

\* DB.save_chunks: the document's chunks are deleted and n new ones inserted
save_chunks(doc, n) ==
  /\ Store
  /\ store.lastchunk + n <= MaxChunkId
  /\ store' = [store EXCEPT
        !.chunks = {c \in @ : c.doc # doc}
                     \cup {[id |-> store.lastchunk + i, doc |-> doc] : i \in 1..n},
        !.lastchunk = @ + n]
  /\ act' = Act("save_chunks", 0, 0, doc, "saved", "none")

\* DB.save_embeddings_batch: one embeddings row and one row of the vector
\* table of the model's dimensions for each item, ids in insertion order
save_embeddings_batch(ids, m) ==
  /\ Store
  /\ ids # {}
  /\ store.lastemb + Cardinality(ids) <= MaxEmbId
  /\ LET order == SortedSeq(ids)
         new == {[id |-> store.lastemb + i, chunk |-> order[i], model |-> m] :
                   i \in 1..Len(order)}
     IN store' = [store EXCEPT
          !.emb = @ \cup new,
          !.lastemb = @ + Cardinality(ids),
          !.vec[Dimensions(m)] = @ \cup {e.id : e \in new}]
  /\ act' = Act("save_embeddings_batch", 0, 0, Cardinality(ids), m, "none")

\* embeddings rows of chunks that no longer exist
OrphanIds == {e.id : e \in {x \in store.emb : x.chunk \notin LiveChunks}}

\* DB.cleanup_orphan_embeddings
cleanup_orphan_embeddings ==
  /\ Store
  /\ store' = [store EXCEPT
        !.vec = [d \in VecTables |-> @[d] \ OrphanIds],
        !.emb = {e \in @ : e.id \notin OrphanIds}]
  /\ act' = Act("cleanup_orphan_embeddings", 0, 0, Cardinality(OrphanIds), "deleted", "none")

\* the embeddings rows of the model, whether their chunk exists or not
EmbeddedRows(m) == Cardinality({e \in store.emb : e.model = m})

\* count_chunks_for_embedding: COUNT(DISTINCT c.id) over the join of
\* document_chunks with the embeddings rows of the model
EmbeddedChunks(m) ==
  Cardinality({c \in LiveChunks : \E e \in store.emb : e.chunk = c /\ e.model = m})

\* DB.count_chunks_for_embedding(model)["pending_chunks"], returned in act.item
count_chunks_for_embedding(m) ==
  /\ Store
  /\ act' = Act("count_chunks_for_embedding", 0, 0,
                Cardinality(store.chunks) - EmbeddedChunks(m), m, "none")
  /\ UNCHANGED store

\* ------------------------------------------------------------ normalize_url
\* urllib.parse on the URLs used here: letters and "." may spell a scheme;
\* http, https and the empty scheme take a netloc and path parameters
Letters == {"a", "b", "h", "p", "s", "t", "w"}
UsesNetloc == {<<>>, <<"h", "t", "t", "p">>, <<"h", "t", "t", "p", "s">>}

\* urlparse(url): scheme up to the first ":", netloc between "//" and the
\* next "/", "?" or "#", then the fragment, the query and (after the last
\* "/" only) the parameters are split off the path
urlparse(url) ==
  LET colon == Find(url, {":"}, 1)
      has_scheme == /\ colon > 1
                    /\ url[1] \in Letters
                    /\ \A i \in 1..(colon - 1) : url[i] \in Letters \cup {"."}
      scheme == IF has_scheme THEN SubSeq(url, 1, colon - 1) ELSE <<>>
      u1 == IF has_scheme THEN SubSeq(url, colon + 1, Len(url)) ELSE url
      has_netloc == StartsWith(u1, <<"/", "/">>)
      delim == IF Find(u1, {"/", "?", "#"}, 3) = 0 THEN Len(u1) + 1
               ELSE Find(u1, {"/", "?", "#"}, 3)
      netloc == IF has_netloc THEN SubSeq(u1, 3, delim - 1) ELSE <<>>
      u2 == IF has_netloc THEN SubSeq(u1, delim, Len(u1)) ELSE u1
      u3 == IF Find(u2, {"#"}, 1) > 0 THEN SubSeq(u2, 1, Find(u2, {"#"}, 1) - 1) ELSE u2
      u4 == IF Find(u3, {"?"}, 1) > 0 THEN SubSeq(u3, 1, Find(u3, {"?"}, 1) - 1) ELSE u3
      semi == Find(u4, {";"}, Max(RFind(u4, "/"), 1))
      path == IF scheme \in UsesNetloc /\ semi > 0 THEN SubSeq(u4, 1, semi - 1) ELSE u4
  IN [scheme |-> scheme, netloc |-> netloc, path |-> path]

\* urlunparse((scheme, netloc, path, "", "", ""))
urlunparse(scheme, netloc, path) ==
  LET url == IF \/ netloc # <<>>
                \/ (scheme # <<>> /\ scheme \in UsesNetloc /\ ~StartsWith(path, <<"/", "/">>))
             THEN <<"/", "/">> \o netloc
                  \o (IF path # <<>> /\ path[1] # "/" THEN <<"/">> \o path ELSE path)
             ELSE path
  IN IF scheme # <<>> THEN scheme \o <<":">> \o url ELSE url

\* normalize_url of storage.py (strip_www) and of readwise.py (not
\* strip_www), which differ in the netloc only; <<>> is both "" and None
NormalizeUrl(u, strip_www) ==
  LET stripped == Lower(RStrip(LStrip(u, {" "}), {" "}))
      https == IF StartsWith(stripped, <<"h", "t", "t", "p", ":", "/", "/">>)
               THEN <<"h", "t", "t", "p", "s", ":", "/", "/">> \o SubSeq(stripped, 8, Len(stripped))
               ELSE stripped
      parsed == urlparse(https)
      netloc == IF strip_www THEN Remove(parsed.netloc, <<"w", "w", "w", ".">>)
                ELSE parsed.netloc
  IN IF u = <<>> THEN <<>>
     ELSE urlunparse(parsed.scheme, netloc, RStrip(parsed.path, {"/"}))

\* --------------------------------------- Library: documents and highlights
\* One Import to its end, without pause: stream_import yields the records of
\* the document endpoint, then the books of the export endpoint, and
\* readwise_import_stream persists each ITEM with save_article and
\* save_highlight.  The provider id of a record is its place in the upstream
\* list (ids of the reading service are unique).  "" stands for None.
Urls == {"", "http://a/", "https://a", "https://www.a", "https://b"}

\* readwise.normalize_url: lower case, http -> https, no trailing slash, no
\* query; on Urls, the values of NormalizeUrl without strip_www
readwise_normalize_url(u) == IF u = "http://a/" THEN "https://a" ELSE u

\* storage.normalize_url: the same, and "www." removed from the host; on
\* Urls, the values of NormalizeUrl with strip_www
normalize_url(u) ==
  IF u \in {"http://a/", "https://www.a"} THEN "https://a" ELSE u

\* _parse_article: provider "reader"; _parse_export_book: provider = the
\* book's source, with its highlights (here at most one, by its text hash)
Records ==
  [ep : {"reader"}, source : {"reader"}, url : Urls, hl : {""}]
    \cup [ep : {"export"}, source : {"reader", "kindle"}, url : Urls, hl : {"", "t"}]

\* stream_import: the document endpoint first, then the export endpoint
Upstreams ==
  {u \in UNION {[1..n -> Records] : n \in 0..MaxRecords} :
     \A i, k \in DOMAIN u : (i < k /\ u[i].ep = "export") => u[k].ep = "export"}

NewLibrary(up) ==
  [up |-> up, run |-> 1, pos |-> 0, docs |-> {}, lastdoc |-> 0, hls |-> {},
   url_index |-> {}, imported |-> 0, merged |-> 0]

\* a provider id never found (the upsert then always inserts)
NoProviderMatch(rows, source, pid) == {}

\* the ON CONFLICT(source, provider_id) target of save_article
ByProvider(rows, source, pid) == {d \in rows : d.source = source /\ d.pid = pid}

\* DB.save_article: the row found by (source, url_canonical) is updated, else
\* the row is upserted by (source, provider_id); id 0 stands for the
\* IntegrityError of UNIQUE(source, provider_id)
save_article(rows, last, source, pid, url) ==
  LET c == normalize_url(url)
      byurl == IF c = "" THEN {} ELSE {d \in rows : d.source = source /\ d.url = c}
      bypid == ByProvider(rows, source, pid)
  IN IF byurl # {}
     THEN LET d == CHOOSE x \in byurl : \A y \in byurl : x.id <= y.id
          IN IF \E o \in bypid : o.id # d.id
             THEN [docs |-> rows, last |-> last, id |-> 0]
             ELSE [docs |-> (rows \ {d}) \cup {[d EXCEPT !.pid = pid]}, last |-> last,
                   id |-> d.id]
     ELSE IF bypid # {}
     THEN LET d == CHOOSE x \in bypid : TRUE
          IN [docs |-> (rows \ {d}) \cup {[d EXCEPT !.url = IF c = "" THEN @ ELSE c]},
              last |-> last, id |-> d.id]
     ELSE [docs |-> rows \cup {[id |-> last + 1, source |-> source, pid |-> pid, url |-> c]},
           last |-> last + 1, id |-> last + 1]

Library ==
  /\ kind = "library"
  /\ UNCHANGED <<kind, fetchVars, embedVars, importVars, pipeVars, bulkVars, store, del,
               lim, extVars>>

\* the book's URL is already in url_index: counted as merged
IsMerge(r) ==
  r.ep = "export" /\ readwise_normalize_url(r.url) # ""
    /\ readwise_normalize_url(r.url) \in lib.url_index

\* one ITEM: the record is counted by _stream_reader_api / _stream_export_api
\* and persisted by the event generator of readwise_import_stream
ImportItem ==
  /\ Library
  /\ lib.pos < Len(lib.up)
  /\ LET r == lib.up[lib.pos + 1]
         s == save_article(lib.docs, lib.lastdoc, r.source, lib.pos + 1, r.url)
     IN /\ lib' = [lib EXCEPT
              !.pos = IF s.id = 0 THEN Len(lib.up) ELSE @ + 1,
              !.docs = s.docs,
              !.lastdoc = s.last,
              !.hls = IF s.id # 0 /\ r.hl # "" THEN @ \cup {[doc |-> s.id, hash |-> r.hl]} ELSE @,
              !.url_index = IF IsMerge(r) THEN @ ELSE @ \cup ({readwise_normalize_url(r.url)} \ {""}),
              !.merged = IF IsMerge(r) THEN @ + 1 ELSE @,
              !.imported = IF IsMerge(r) THEN @ ELSE @ + 1]
        /\ act' = Act("ImportItem", lib.run, 0, lib.pos + 1,
                      IF s.id = 0 THEN "error" ELSE IF IsMerge(r) THEN "merged" ELSE "imported",
                      r.ep)

\* the next Import of the same upstream state: a new job and a new url_index
ImportAgain ==
  /\ Library
  /\ lib.pos = Len(lib.up)
  /\ lib.run < MaxImports
  /\ lib' = [lib EXCEPT !.run = @ + 1, !.pos = 0, !.url_index = {}, !.imported = 0,
                         !.merged = 0]
  /\ act' = Act("ImportAgain", lib.run + 1, 0, 0, "started", "none")

\* ----------------------------------------------------- process restart
\* a row that only a paused or failed job would have
RehydratedResumable(row) == row.status \in {"paused", "failed"}

\* _load_from_db: WHERE status NOT IN ('completed')
Rehydrated(row) == row.status \notin {"absent", "completed"}

\* the registry after <Kind>JobStore.__init__: a new object from_row for each
\* rehydrated row; the objects of the old process are out of reach
Reload(jobs, db) == [j \in JobIds |-> IF Rehydrated(db[j]) THEN db[j] ELSE jobs[j]]

\* The process ends and starts again: init_db builds the Import, Fetch and
\* Embed registries from their tables, and the generators of the old
\* process are gone.  (PipelineJobStore keeps no rows.)
Restart ==
  /\ act.name # "Restart"
  /\ \/ /\ Fetch
        /\ freg' = {j \in JobIds : Rehydrated(fdb[j])}
        /\ fjobs' = Reload(fjobs, fdb)
        /\ frun' = [r \in Runners |-> IF frun[r].pc = "idle" THEN IdleRun ELSE EndRun(frun[r])]
        /\ UNCHANGED <<fdb, docs, fmaxdone>>
     \/ /\ Embed
        /\ ereg' = {j \in JobIds : Rehydrated(edb[j])}
        /\ ejobs' = Reload(ejobs, edb)
        /\ erun' = [r \in Runners |->
                      IF erun[r].pc = "idle" THEN IdleEmbedRun ELSE EndEmbedRun(erun[r])]
        /\ UNCHANGED <<edb, chunks>>
     \/ /\ Import
        /\ ireg' = {j \in JobIds : Rehydrated(idb[j])}
        /\ ijobs' = Reload(ijobs, idb)
        /\ irun' = [r \in Runners |->
                      IF irun[r].pc = "idle" THEN IdleImportRun ELSE EndImportRun(irun[r])]
        /\ UNCHANGED <<idb, upstream, idelivered, iended>>
  /\ act' = Act("Restart", 0, 0, 0, "restarted", act.name)

\* ------------------------------------------------------- DELETE of a job
\* The DELETE endpoints are synchronous handlers on the thread pool: they read
\* the job's status and then call store.delete; runner steps and other
\* requests run between the two.
NoDelete == [pc |-> "idle", job |-> 0]

\* DELETE /api/fetch/{job_id}: refused while the job is running
api_fetch_delete(j) ==
  /\ kind = "fetch"
  /\ del.pc = "idle"
  /\ fjobs[j].status # "absent"
  /\ ~ (j \in freg /\ fjobs[j].status = "running")
  /\ del' = [pc |-> "checked", job |-> j]
  /\ act' = Act("api_fetch_delete", j, 0, 0, "checked", fjobs[j].status)
  /\ UNCHANGED <<kind, fetchVars, embedVars, importVars, pipeVars, bulkVars, store, lib,
               lim, extVars>>

\* FetchJobStore.delete
FetchStoreDelete ==
  /\ kind = "fetch"
  /\ del.pc = "checked"
  /\ freg' = freg \ {del.job}
  /\ fdb' = [fdb EXCEPT ![del.job] = NoFetchJob]
  /\ del' = [del EXCEPT !.pc = "done"]
  /\ act' = Act("FetchStoreDelete", del.job, 0, 0, "deleted", fjobs[del.job].status)
  /\ UNCHANGED <<kind, fjobs, docs, frun, fmaxdone, embedVars, importVars, pipeVars, bulkVars,
                 store, lib, lim, extVars>>

\* DELETE /readwise/jobs/{job_id}: refused while the job is running or pending
readwise_job_delete(j) ==
  /\ kind = "import"
  /\ del.pc = "idle"
  /\ ijobs[j].status # "absent"
  /\ ~ (j \in ireg /\ ijobs[j].status \in {"running", "pending"})
  /\ del' = [pc |-> "checked", job |-> j]
  /\ act' = Act("readwise_job_delete", j, 0, 0, "checked", ijobs[j].status)
  /\ UNCHANGED <<kind, fetchVars, embedVars, importVars, pipeVars, bulkVars, store, lib,
               lim, extVars>>

\* ImportJobStore.delete
ImportStoreDelete ==
  /\ kind = "import"
  /\ del.pc = "checked"
  /\ ireg' = ireg \ {del.job}
  /\ idb' = [idb EXCEPT ![del.job] = NoImportJob]
  /\ del' = [del EXCEPT !.pc = "done"]
  /\ act' = Act("ImportStoreDelete", del.job, 0, 0, "deleted", ijobs[del.job].status)
  /\ UNCHANGED <<kind, ijobs, upstream, irun, idelivered, iended, fetchVars, embedVars,
                 pipeVars, bulkVars, store, lib, lim, extVars>>

\* ------------------------------------------------------ DomainRateLimiter
\* Time is counted in eighths of a second, so that every delay the limiter
\* computes (2, 3, 4.5, 6.75, 10 s) is a whole number: 2.0 s and 10.0 s are
MIN_DELAY == 16
MAX_DELAY == 80

Domains == {"a.example", "b.example"}

\* a delay raised without the MAX_DELAY cap
UncappedDelay(current) == (current * 3) \div 2

\* record_failure: min(current * FAILURE_MULTIPLIER, MAX_DELAY), with
\* FAILURE_MULTIPLIER = 1.5
RaisedDelay(current) ==
  IF (current * 3) \div 2 < MAX_DELAY THEN (current * 3) \div 2 ELSE MAX_DELAY

\* DomainRateLimiter(): _last_request defaults to 0.0, _delays to MIN_DELAY;
\* out is the outcome last recorded for the domain, req the domain whose
\* fetch is under way
NewLimiter ==
  [pc |-> "run", last |-> [d \in Domains |-> 0], delay |-> [d \in Domains |-> MIN_DELAY],
   out |-> [d \in Domains |-> "none"], req |-> ""]

\* now: time.monotonic(); sent: per domain the time of the last content
\* fetch of any run (-1: none yet); n: content fetches so far
NoLimiters ==
  [now |-> 0, sent |-> [d \in Domains |-> -1], n |-> 0,
   runs |-> [r \in Runners |-> [NewLimiter EXCEPT !.pc = "idle"]]]

Limiter ==
  /\ kind = "limiter"
  /\ UNCHANGED <<kind, fetchVars, embedVars, importVars, pipeVars, bulkVars, store, lib,
               del, extVars>>

\* run_fetch_job: every run makes a rate limiter of its own
RateLimiterStart(r) ==
  /\ Limiter
  /\ lim.runs[r].pc = "idle"
  /\ lim' = [lim EXCEPT !.runs[r] = NewLimiter]
  /\ act' = Act("RateLimiterStart", 0, r, 0, "none", "none")

\* wait_for_domain: wait_time = delay - (now - last); the run sleeps for it
\* when it is positive (the clock moves on with the sleep, and only so),
\* stamps the domain and sends fetcher.fetch(url)
wait_for_domain(r, d) ==
  /\ Limiter
  /\ lim.runs[r].pc = "run"
  /\ lim.runs[r].req = ""
  /\ lim.n < MaxRequests
  /\ LET wait_time == lim.runs[r].delay[d] - (lim.now - lim.runs[r].last[d])
         woken == IF wait_time > 0 THEN lim.now + wait_time ELSE lim.now
     IN lim' = [lim EXCEPT !.now = woken, !.runs[r].last[d] = woken, !.runs[r].req = d,
                           !.sent[d] = woken, !.n = @ + 1]
  /\ act' = Act("wait_for_domain", 0, r, 0, d, "none")

\* the fetch returns: record_success, record_failure when the failure is
\* retriable, nothing otherwise
FetchResult(r, o) ==
  /\ Limiter
  /\ lim.runs[r].req # ""
  /\ LET d == lim.runs[r].req
     IN lim' = [lim EXCEPT
          !.runs[r].req = "",
          !.runs[r].delay[d] = IF o = "success" THEN MIN_DELAY
                               ELSE IF o = "retriable" THEN RaisedDelay(@) ELSE @,
          !.runs[r].out[d] = IF o = "success" THEN "success"
                             ELSE IF o = "retriable" THEN "failure" ELSE @]
  /\ act' = Act("FetchResult", 0, r, 0, o, lim.runs[r].req)

\* ---------------------------------------------------- OpenAIProvider.embed
\* Retry settings for rate limits; the delays are whole seconds
MAX_RETRIES == 5
INITIAL_DELAY == 2
EMBED_MAX_DELAY == 60

\* what the embeddings endpoint answers to one POST
HttpAnswers == {"200", "401", "429", "429 quota", "500", "timeout"}

\* delay = min(delay * 2, MAX_DELAY)
NextBackoff(delay) == IF delay * 2 < EMBED_MAX_DELAY THEN delay * 2 ELSE EMBED_MAX_DELAY

\* no call yet. pc: where the call stands; attempt: the loop variable;
\* posts: requests sent by this call; slept: the sleeps of this call, in
\* order; err, retriable: the EmbeddingError (or the httpx error) raised;
\* calls: calls of embed so far
NoEmbedCall ==
  [pc |-> "idle", attempt |-> 0, delay |-> INITIAL_DELAY, posts |-> 0, slept |-> <<>>,
   err |-> "none", retriable |-> FALSE, calls |-> 0]

Provider == kind = "provider" /\ UNCHANGED <<kind, baseVars, nurl, tiny, pq, th, locks, dig>>

\* embed(texts) up to the first request: no texts, return []; no API key,
\* raise; else enter the retry loop with delay = INITIAL_DELAY
embed(ntexts, has_key) ==
  /\ Provider
  /\ prov.pc \in {"idle", "returned", "raised"}
  /\ prov.calls < MaxCalls
  /\ prov' = [NoEmbedCall EXCEPT
       !.calls = prov.calls + 1,
       !.pc = IF ntexts = 0 THEN "returned" ELSE IF has_key THEN "post" ELSE "raised",
       !.err = IF ntexts > 0 /\ ~has_key THEN "no_api_key" ELSE "none"]
  /\ act' = Act("embed", 0, 0, ntexts, IF has_key THEN "key" ELSE "no key", "none")

\* client.post and the except clause: 200 returns the vectors; 429 with
\* "quota" in the body, 401 and every other status raise a non-retriable
\* EmbeddingError; a 429 without it starts asyncio.sleep(delay); an error
\* that is no HTTPStatusError leaves embed as it is
EmbedPost(answer) ==
  /\ Provider
  /\ prov.pc = "post"
  /\ prov' = [prov EXCEPT
       !.posts = @ + 1,
       !.pc = IF answer = "200" THEN "returned" ELSE IF answer = "429" THEN "sleep" ELSE "raised",
       !.err = CASE answer = "200" -> "none"
                 [] answer = "429" -> "none"
                 [] answer = "429 quota" -> "quota"
                 [] answer = "401" -> "auth"
                 [] answer = "500" -> "api_error"
                 [] OTHER -> "httpx_error"]
  /\ act' = Act("EmbedPost", 0, 0, prov.attempt, answer, "none")

\* the sleep ends: delay = min(delay * 2, MAX_DELAY), and the loop
\* `for attempt in range(MAX_RETRIES)` goes on or is exhausted, which raises
\* the retriable EmbeddingError
EmbedSleepEnd ==
  /\ Provider
  /\ prov.pc = "sleep"
  /\ prov' = [prov EXCEPT
       !.slept = Append(@, prov.delay),
       !.delay = NextBackoff(@),
       !.attempt = @ + 1,
       !.pc = IF prov.attempt + 1 < MAX_RETRIES THEN "post" ELSE "raised",
       !.err = IF prov.attempt + 1 < MAX_RETRIES THEN "none" ELSE "rate_limit",
       !.retriable = ~(prov.attempt + 1 < MAX_RETRIES)]
  /\ act' = Act("EmbedSleepEnd", 0, 0, prov.attempt, "none", "none")

\* ------------------------------------------------- normalize_url, applied
\* the URL strings given to normalize_url: None, and absolute URLs made of
\* a scheme, a host, a path of at most MaxPathLen characters and a query, a
\* fragment or a trailing blank
UrlSchemes ==
  {<<"h", "t", "t", "p", ":", "/", "/">>, <<"h", "t", "t", "p", "s", ":", "/", "/">>,
   <<"H", "T", "T", "P", ":", "/", "/">>}
UrlHosts == {<<"a">>, <<"A">>, <<"w", "w", "w", ".", "a">>,
             <<"w", "w", "w", "w", ".", "w", "w", ".", "a">>}
UrlTails == {<<>>, <<"?", "b">>, <<"#", "b">>, <<"?", "/">>, <<" ">>}

RECURSIVE UrlPaths(_)
UrlPaths(n) ==
  IF n = 0 THEN {<<>>}
  ELSE UrlPaths(n - 1) \cup {Append(p, c) : p \in UrlPaths(n - 1), c \in {"/", "b", ";"}}

UrlStrings ==
  {<<>>} \cup
  {s \o h \o p \o t : s \in UrlSchemes, h \in UrlHosts, p \in UrlPaths(MaxPathLen), t \in UrlTails}

NoUrl == [pc |-> "none", www |-> FALSE, x |-> <<>>, once |-> <<>>, twice |-> <<>>]

Url == kind = "url" /\ UNCHANGED <<kind, baseVars, prov, tiny, pq, th, locks, dig>>

\* url_canonical = normalize_url(url)
Normalize ==
  /\ Url
  /\ nurl.pc = "given"
  /\ nurl' = [nurl EXCEPT !.pc = "once", !.once = NormalizeUrl(nurl.x, nurl.www)]
  /\ act' = Act("Normalize", 0, 0, 0, "none", "none")

\* normalize_url of a normalized URL, as when a stored url_canonical is
\* looked up again
NormalizeAgain ==
  /\ Url
  /\ nurl.pc = "once"
  /\ nurl' = [nurl EXCEPT !.pc = "twice", !.twice = NormalizeUrl(nurl.once, nurl.www)]
  /\ act' = Act("NormalizeAgain", 0, 0, 0, "none", "none")

\* --------------------------------------------- the two mutexes of fetch_job
Threads == 1..NumThreads

\* a step of a method: take or release a mutex ("reg": FetchJobStore._lock,
\* "lim": DomainRateLimiter._lock), work on the dict, or an I/O operation
Acquire(l) == [k |-> "acquire", a |-> l]
Release(l) == [k |-> "release", a |-> l]
Mem == [k |-> "mem", a |-> "dict"]
IO(what) == [k |-> "io", a |-> what]

\* wait_for_domain with the sleep inside the first `with self._lock`
ProgramSleepLocked(op) ==
  CASE op = "wait_for_domain" ->
         <<Acquire("lim"), Mem, IO("sleep"), Release("lim"), Acquire("lim"), Mem, Release("lim")>>
    [] op \in {"record_success", "record_failure"} -> <<Acquire("lim"), Mem, Release("lim")>>
    [] op = "get" -> <<Acquire("reg"), Mem, Release("reg")>>
    [] op = "fetch" -> <<IO("http")>>
    [] OTHER -> <<Acquire("reg"), Mem, IO("db_execute"), IO("db_commit"), Release("reg")>>

\* the steps of each method. create, update, pause, cancel and delete change
\* the dict and call _persist (execute, commit), or DELETE and commit, inside
\* `with self._lock`; wait_for_domain reads under the mutex, sleeps without
\* it and takes it again for the stamp; fetcher.fetch is called by
\* run_fetch_job with no mutex
Program(op) ==
  CASE op = "wait_for_domain" ->
         <<Acquire("lim"), Mem, Release("lim"), IO("sleep"), Acquire("lim"), Mem, Release("lim")>>
    [] op \in {"record_success", "record_failure"} -> <<Acquire("lim"), Mem, Release("lim")>>
    [] op = "get" -> <<Acquire("reg"), Mem, Release("reg")>>
    [] op = "fetch" -> <<IO("http")>>
    [] OTHER -> <<Acquire("reg"), Mem, IO("db_execute"), IO("db_commit"), Release("reg")>>

LockOps ==
  {"create", "update", "pause", "cancel", "delete", "get", "wait_for_domain",
   "record_success", "record_failure", "fetch"}

\* op: the method the thread is in; pc: the step it takes next; io: the I/O
\* operation in progress
NoThread == [op |-> "none", pc |-> 0, io |-> "none"]

Locks == kind = "locks" /\ UNCHANGED <<kind, baseVars, prov, nurl, tiny, pq, dig>>

\* a thread (a request handler, or the event loop in run_fetch_job) calls
\* a method
LockCall(t, op) ==
  /\ Locks
  /\ th[t].op = "none"
  /\ th' = [th EXCEPT ![t] = [op |-> op, pc |-> 1, io |-> "none"]]
  /\ act' = Act("LockCall", 0, t, 0, op, "none")
  /\ UNCHANGED locks

\* the next step of the method: a mutex is taken when it is free; an I/O
\* operation starts, and its end is the step after; the method returns
\* after its last step
LockStep(t) ==
  /\ Locks
  /\ th[t].op # "none"
  /\ LET prog == Program(th[t].op)
         step == prog[th[t].pc]
         after == IF th[t].pc = Len(prog) THEN NoThread
                  ELSE [th[t] EXCEPT !.pc = @ + 1, !.io = "none"]
     IN CASE step.k = "acquire" ->
               /\ locks[step.a] = 0
               /\ locks' = [locks EXCEPT ![step.a] = t]
               /\ th' = [th EXCEPT ![t] = after]
          [] step.k = "release" ->
               /\ locks' = [locks EXCEPT ![step.a] = 0]
               /\ th' = [th EXCEPT ![t] = after]
          [] step.k = "io" /\ th[t].io = "none" ->
               /\ th' = [th EXCEPT ![t].io = step.a]
               /\ UNCHANGED locks
          [] OTHER ->
               /\ th' = [th EXCEPT ![t] = after]
               /\ UNCHANGED locks
  /\ act' = Act("LockStep", 0, t, th[t].pc, th[t].op, "none")

\* ------------------------------------------------------ the digest pipeline
\* pc: the position of the generator run_digest_pipeline; ret: the id that
\* _compile_phase returned (0: none); digest_id 0 is None
NoDigestJob ==
  [status |-> "pending", phase |-> "idle", chunks_found |-> 0, digest_id |-> 0,
   error |-> "none", pc |-> "idle", ret |-> 0]

Digest == kind = "digest" /\ UNCHANGED <<kind, baseVars, prov, nurl, tiny, pq, th, locks>>

\* except Exception: the job fails in the phase it is in
DigestFailed(j, phase) ==
  /\ dig' = [dig EXCEPT ![ "jobs"][j] =
               [@ EXCEPT !.status = "failed", !.phase = phase, !.error = "exception",
                         !.pc = "end"]]
  /\ act' = Act("DigestFailed", j, 0, 0, "digest_failed", phase)

\* the generator starts: the job is running
DigestRunStart(j) ==
  /\ Digest
  /\ dig.jobs[j].pc = "idle"
  /\ dig' = [dig EXCEPT !["jobs"][j] = [@ EXCEPT !.status = "running", !.pc = "start"]]
  /\ act' = Act("DigestRunStart", j, 0, 0, "none", "none")

\* phase 1: found chunks of the date range; with none the job completes
\* at once, with the message in `error` and no digest
DigestFetch(j, found, ok) ==
  /\ Digest
  /\ dig.jobs[j].pc = "start"
  /\ IF ~ok THEN DigestFailed(j, "fetch")
     ELSE IF found = 0
       THEN /\ dig' = [dig EXCEPT !["jobs"][j] =
                         [@ EXCEPT !.status = "completed", !.phase = "done",
                                   !.error = "Keine Chunks im Zeitraum gefunden",
                                   !.chunks_found = 0, !.pc = "end"]]
            /\ act' = Act("DigestFetch", j, 0, found, "digest_complete", "none")
       ELSE /\ dig' = [dig EXCEPT !["jobs"][j] =
                         [@ EXCEPT !.phase = "fetch", !.chunks_found = found,
                                   !.pc = "fetched"]]
            /\ act' = Act("DigestFetch", j, 0, found, "phase_complete", "none")

\* phase 2
DigestCluster(j, ok) ==
  /\ Digest
  /\ dig.jobs[j].pc = "fetched"
  /\ IF ~ok THEN DigestFailed(j, "cluster")
     ELSE /\ dig' = [dig EXCEPT !["jobs"][j] = [@ EXCEPT !.phase = "cluster", !.pc = "clustered"]]
          /\ act' = Act("DigestCluster", j, 0, 0, "phase_complete", "none")

\* phase 3
DigestSummarize(j, ok) ==
  /\ Digest
  /\ dig.jobs[j].pc = "clustered"
  /\ IF ~ok THEN DigestFailed(j, "summarize")
     ELSE /\ dig' = [dig EXCEPT !["jobs"][j] =
                       [@ EXCEPT !.phase = "summarize", !.pc = "summarized"]]
          /\ act' = Act("DigestSummarize", j, 0, 0, "phase_complete", "none")

\* phase 4: save_generated_digest inserts one row and returns its rowid
DigestCompile(j, ok) ==
  /\ Digest
  /\ dig.jobs[j].pc = "summarized"
  /\ IF ~ok THEN DigestFailed(j, "compile")
     ELSE /\ dig' = [dig EXCEPT !["rows"] = Append(@, j),
                                !["jobs"][j] =
                                  [@ EXCEPT !.phase = "compile", !.pc = "compiled",
                                            !.ret = Len(dig.rows) + 1]]
          /\ act' = Act("DigestCompile", j, 0, Len(dig.rows) + 1, "phase_complete", "none")

\* done without the assignment of job.digest_id
DigestDoneNoId(j) ==
  /\ Digest
  /\ dig.jobs[j].pc = "compiled"
  /\ dig' = [dig EXCEPT !["jobs"][j] =
               [@ EXCEPT !.status = "completed", !.phase = "done", !.pc = "end"]]
  /\ act' = Act("DigestDone", j, 0, dig.jobs[j].ret, "digest_complete", "none")

\* done: the job is completed and carries the id of its digest
DigestDone(j) ==
  /\ Digest
  /\ dig.jobs[j].pc = "compiled"
  /\ dig' = [dig EXCEPT !["jobs"][j] =
               [@ EXCEPT !.status = "completed", !.phase = "done",
                         !.digest_id = dig.jobs[j].ret, !.pc = "end"]]
  /\ act' = Act("DigestDone", j, 0, dig.jobs[j].ret, "digest_complete", "none")

\* ======================================================== specification
Kinds ==
  {"fetch", "embed", "import", "pipeline", "store", "library", "limiter", "provider", "url",
   "stream", "locks", "digest"}

InitFetchVars ==
  /\ fjobs = [j \in JobIds |-> NoFetchJob]
  /\ freg = {}
  /\ fdb = [j \in JobIds |-> NoFetchJob]
  /\ \E n \in 0..NumDocs :
       /\ kind # "fetch" => n = 0
       /\ docs = [d \in 1..n |-> NewDoc]
  /\ frun = [r \in Runners |-> IdleRun]
  /\ fmaxdone = [j \in JobIds |-> 0]

InitEmbedVars ==
  /\ ejobs = [j \in JobIds |-> NoEmbedJob]
  /\ ereg = {}
  /\ edb = [j \in JobIds |-> NoEmbedJob]
  /\ \E n \in 0..NumChunks :
       /\ kind \notin {"embed", "pipeline", "stream"} => n = 0
       /\ chunks = [c \in 1..n |-> 0]
  /\ erun = [r \in Runners |-> IdleEmbedRun]

InitImportVars ==
  /\ ijobs = [j \in JobIds |-> NoImportJob]
  /\ ireg = {}
  /\ idb = [j \in JobIds |-> NoImportJob]
  /\ \E nr \in 0..NumPages, ne \in 0..NumPages :
       /\ kind # "import" => nr = 0 /\ ne = 0
       /\ upstream = [reader |-> nr, export |-> ne]
  /\ irun = [r \in Runners |-> IdleImportRun]
  /\ idelivered = [j \in JobIds |-> {}]
  /\ iended = [j \in JobIds |-> FALSE]

InitPipeVars ==
  /\ pjobs = [j \in JobIds |-> NoPipelineJob]
  /\ prun = [j \in JobIds |-> IdlePipeRun]
  /\ last_sync_at = 0
  /\ unchunked \in 0..NumUnchunked
  /\ kind \notin {"pipeline", "stream"} => unchunked = 0

InitBulkVars ==
  /\ ebulk = IdleBulk
  /\ usage = 0

InitStoreVars == store = EmptyStore

InitDelVars == del = NoDelete

InitLimVars == lim = NoLimiters

InitProvVars == prov = NoEmbedCall

InitQueueVars == pq = [j \in JobIds |-> NoQueue]

InitLockVars ==
  /\ th = [t \in Threads |-> NoThread]
  /\ locks = [reg |-> 0, lim |-> 0]

InitDigestVars == dig = [jobs |-> [j \in JobIds |-> NoDigestJob], rows |-> <<>>]

InitTinyVars ==
  /\ tiny \in 0..NumTiny
  /\ kind \notin {"pipeline", "stream"} => tiny = 0

InitUrlVars ==
  IF kind = "url"
  THEN \E x \in UrlStrings, www \in BOOLEAN : nurl = [NoUrl EXCEPT !.pc = "given", !.x = x, !.www = www]
  ELSE nurl = NoUrl

InitLibVars ==
  IF kind = "library" THEN \E up \in Upstreams : lib = NewLibrary(up)
  ELSE lib = NewLibrary(<<>>)

Init ==
  /\ kind \in Kinds
  /\ act = NoAct
  /\ InitFetchVars
  /\ InitEmbedVars
  /\ InitImportVars
  /\ InitPipeVars
  /\ InitBulkVars
  /\ InitStoreVars
  /\ InitLibVars
  /\ InitDelVars
  /\ InitLimVars
  /\ InitProvVars
  /\ InitUrlVars
  /\ InitTinyVars
  /\ InitQueueVars
  /\ InitLockVars
  /\ InitDigestVars

NextFetch ==
  \/ api_fetch_start
  \/ \E j \in JobIds : api_fetch_pause(j)
  \/ \E j \in JobIds : api_fetch_cancel(j)
  \/ \E j \in JobIds : api_fetch_resume(j)
  \/ \E j \in JobIds : api_fetch_stream(j)
  \/ api_fetch_retry_failed
  \/ \E r \in Runners : FetchRunStart(r)
  \/ \E r \in Runners : FetchRunNext(r)
  \/ \E r \in Runners, o \in FetchOutcomes : FetchRunResponse(r, o)

NextEmbed ==
  \/ api_embed_start
  \/ \E j \in JobIds : api_embed_pause(j)
  \/ \E j \in JobIds : api_embed_cancel(j)
  \/ \E j \in JobIds : api_embed_resume(j)
  \/ \E j \in JobIds : api_embed_stream(j)
  \/ \E r \in Runners, ok \in BOOLEAN : EmbedRunStart(r, ok)
  \/ \E r \in Runners : EmbedRunNext(r)
  \/ \E r \in Runners, o \in EmbedOutcomes : EmbedRunResponse(r, o)
  \/ api_generate_embeddings_fast
  \/ api_generate_chunk_embeddings
  \/ \E ok \in BOOLEAN : BulkResponse(ok)

NextImport ==
  \/ readwise_import_start
  \/ \E j \in JobIds : readwise_import_pause(j)
  \/ \E j \in JobIds : readwise_import_resume(j)
  \/ \E j \in JobIds : readwise_job_cancel(j)
  \/ \E j \in JobIds : readwise_import_stream(j)
  \/ \E r \in Runners : ImportRunStart(r)
  \/ \E r \in Runners, ok \in BOOLEAN : ImportRunResponse(r, ok)
  \/ \E r \in Runners : ImportRunNext(r)

NextPipeline ==
  \/ \E s \in BOOLEAN : api_pipeline_start(s)
  \/ \E j \in JobIds : pipeline_pause(j)
  \/ \E j \in JobIds : pipeline_cancel(j)
  \/ \E j \in JobIds : PipeRunStart(j)
  \/ \E j \in JobIds : PipeImportCheck(j)
  \/ \E j \in JobIds : PipeImportCall(j)
  \/ \E j \in JobIds : PipeChunk(j)
  \/ \E j \in JobIds : PipeEmbedCheck(j)
  \/ \E j \in JobIds : PipeEmbedDone(j)
  \/ \E j \in JobIds, ok \in BOOLEAN : PipeIndex(j, ok)
  \/ \E r \in Runners, ok \in BOOLEAN : EmbedRunStart(r, ok)
  \/ \E r \in Runners : EmbedRunNext(r)
  \/ \E r \in Runners, o \in EmbedOutcomes : EmbedRunResponse(r, o)

NextStore ==
  \/ \E doc \in StoreDocs, n \in 1..2 : save_chunks(doc, n)
  \/ \E ids \in SUBSET (1..store.lastchunk), m \in Models : save_embeddings_batch(ids, m)
  \/ cleanup_orphan_embeddings
  \/ \E m \in Models : count_chunks_for_embedding(m)

NextLibrary == ImportItem \/ ImportAgain

NextLimiter ==
  \/ \E r \in Runners : RateLimiterStart(r)
  \/ \E r \in Runners, d \in Domains : wait_for_domain(r, d)
  \/ \E r \in Runners, o \in {"success", "retriable", "permanent"} : FetchResult(r, o)

NextProvider ==
  \/ \E ntexts \in 0..2, has_key \in BOOLEAN : embed(ntexts, has_key)
  \/ \E answer \in HttpAnswers : EmbedPost(answer)
  \/ EmbedSleepEnd

NextUrl == Normalize \/ NormalizeAgain

\* one Pipeline run and its stream
NextStream ==
  \/ \E s \in BOOLEAN : PipelineCreated = {} /\ api_pipeline_start(s)
  \/ \E j \in JobIds : pipeline_pause(j)
  \/ \E j \in JobIds : pipeline_cancel(j)
  \/ \E j \in JobIds : PipeRunStart(j)
  \/ \E j \in JobIds : PipeImportCheck(j)
  \/ \E j \in JobIds : PipeImportCall(j)
  \/ \E j \in JobIds : PipeChunk(j)
  \/ \E j \in JobIds : PipeEmbedCheck(j)
  \/ \E j \in JobIds : PipeEmbedDone(j)
  \/ \E j \in JobIds, ok \in BOOLEAN : PipeIndex(j, ok)
  \/ \E r \in Runners, ok \in BOOLEAN : EmbedRunStart(r, ok)
  \/ \E r \in Runners : EmbedRunNext(r)
  \/ \E r \in Runners, o \in EmbedOutcomes : EmbedRunResponse(r, o)
  \/ \E j \in JobIds : ThreadFinally(j)
  \/ \E j \in JobIds : StreamGet(j)

NextLocks ==
  \/ \E t \in Threads, op \in LockOps : LockCall(t, op)
  \/ \E t \in Threads : LockStep(t)

NextDigest ==
  \/ \E j \in JobIds : DigestRunStart(j)
  \/ \E j \in JobIds, found \in 0..MaxFound, ok \in BOOLEAN : DigestFetch(j, found, ok)
  \/ \E j \in JobIds, ok \in BOOLEAN : DigestCluster(j, ok)
  \/ \E j \in JobIds, ok \in BOOLEAN : DigestSummarize(j, ok)
  \/ \E j \in JobIds, ok \in BOOLEAN : DigestCompile(j, ok)
  \/ \E j \in JobIds : DigestDone(j)

Next ==
  \/ NextFetch
  \/ NextEmbed
  \/ NextImport
  \/ NextPipeline
  \/ NextStore
  \/ NextLibrary
  \/ NextLimiter
  \/ NextProvider
  \/ NextUrl
  \/ NextLocks
  \/ NextDigest
  \/ \E j \in JobIds : ThreadFinally(j)
  \/ \E j \in JobIds : StreamGet(j)
  \/ \E j \in JobIds : api_fetch_delete(j)
  \/ FetchStoreDelete
  \/ \E j \in JobIds : readwise_job_delete(j)
  \/ ImportStoreDelete
  \/ Restart

\* every engine
Spec == Init /\ [][Next]_vars

\* one engine
InitFetch == Init /\ kind = "fetch"

SpecFetch == InitFetch /\ [][NextFetch]_vars

InitEmbed == Init /\ kind = "embed"

SpecEmbed == InitEmbed /\ [][NextEmbed]_vars

InitImport == Init /\ kind = "import"

SpecImport == InitImport /\ [][NextImport]_vars

InitPipeline == Init /\ kind = "pipeline"

\* the Fetch engine or the Embed engine
NextStart == NextFetch \/ NextEmbed

InitStart == Init /\ kind \in {"fetch", "embed"}

SpecStart == InitStart /\ [][NextStart]_vars

SpecPipeline == InitPipeline /\ [][NextPipeline]_vars

\* the three persisted registries with process restarts
NextRestart == NextFetch \/ NextEmbed \/ NextImport \/ Restart

InitRestart == Init /\ kind \in {"fetch", "embed", "import"}

SpecRestart == InitRestart /\ [][NextRestart]_vars

\* the Fetch and Import registries with DELETE requests
NextDelete ==
  \/ NextFetch
  \/ NextImport
  \/ \E j \in JobIds : api_fetch_delete(j)
  \/ FetchStoreDelete
  \/ \E j \in JobIds : readwise_job_delete(j)
  \/ ImportStoreDelete

\* at most one document and one upstream page
InitDelete ==
  /\ Init
  /\ kind \in {"fetch", "import"}
  /\ Len(docs) <= 1
  /\ upstream["reader"] + upstream["export"] <= 1

SpecDelete == InitDelete /\ [][NextDelete]_vars

\* the rate limiters of the runs of the fetch engine
InitLimiter == Init /\ kind = "limiter"

SpecLimiter == InitLimiter /\ [][NextLimiter]_vars

\* the chunk and embedding tables alone
InitStore == Init /\ kind = "store"

SpecStore == InitStore /\ [][NextStore]_vars

\* the document and highlight tables under repeated Imports
InitLibrary == Init /\ kind = "library"

SpecLibrary == InitLibrary /\ [][NextLibrary]_vars

\* calls of the paid embedding provider
InitProvider == Init /\ kind = "provider"

SpecProvider == InitProvider /\ [][NextProvider]_vars

\* normalize_url on URL strings
InitUrl == Init /\ kind = "url"

SpecUrl == InitUrl /\ [][NextUrl]_vars

\* Pipeline runs with the event queue of run_pipeline, over a library
\* without chunks. The worker thread, the child Embed run and the consumer
\* loop are scheduled: each takes its next step when it has one
InitStream == Init /\ kind = "stream" /\ chunks = <<>>

ThreadStep(j) ==
  \/ PipeRunStart(j) \/ PipeImportCheck(j) \/ PipeImportCall(j) \/ PipeChunk(j)
  \/ PipeEmbedCheck(j) \/ PipeEmbedDone(j) \/ (\E ok \in BOOLEAN : PipeIndex(j, ok))
  \/ ThreadFinally(j)

EmbedRunStep(r) ==
  \/ (\E ok \in BOOLEAN : EmbedRunStart(r, ok))
  \/ EmbedRunNext(r)
  \/ (\E o \in EmbedOutcomes : EmbedRunResponse(r, o))

SpecStream ==
  /\ InitStream
  /\ [][NextStream]_vars
  /\ \A j \in JobIds : WF_vars(ThreadStep(j)) /\ WF_vars(StreamGet(j))
  /\ \A r \in Runners : WF_vars(EmbedRunStep(r))

\* threads in the methods of FetchJobStore and DomainRateLimiter
InitLocks == Init /\ kind = "locks"

SpecLocks == InitLocks /\ [][NextLocks]_vars

\* digest jobs run by run_digest_pipeline
InitDigest == Init /\ kind = "digest"

SpecDigest == InitDigest /\ [][NextDigest]_vars

\* =============================================================== claims
\* the status of job j of engine k
JobStatus(k, j) ==
  CASE k = "fetch" -> fjobs[j].status
    [] k = "embed" -> ejobs[j].status
    [] k = "import" -> ijobs[j].status
    [] k \in {"pipeline", "stream"} -> pjobs[j].status

\* the jobs of the engine of this behaviour
Jobs == {j \in JobIds : JobStatus(kind, j) # "absent"}

\* what the resume endpoint of engine k makes of status st
ResumeOf(k, st) ==
  CASE k = "fetch" -> FetchResume(st)
    [] k = "embed" -> EmbedResume(st)
    [] k = "import" -> ImportResume(st)

\* what the cancel operation of engine k makes of status st
CancelOf(k, st) ==
  CASE k = "fetch" -> FetchCancel(st)
    [] k = "embed" -> EmbedCancel(st)
    [] k = "import" -> ImportCancel(st)

\* no generator is at work on job j
NoFetchRun(j) == \A r \in Runners : frun[r].job = j => frun[r].pc = "done"

NoImportRun(j) == \A r \in Runners : irun[r].job = j => irun[r].pc = "done"

\* C1: per kind at most one job is in status running, under any
\* interleaving of start, stream, pause, resume and cancel requests.
C1_OneRunningPerKind ==
  Cardinality({j \in JobIds : JobStatus(kind, j) = "running"}) <= 1

\* C2: once the status of a job is completed or cancelled it never changes
\* again.
C2_TerminalIsFinal ==
  [][\A j \in JobIds :
       /\ fjobs[j].status \in Terminal => fjobs'[j].status = fjobs[j].status
       /\ ejobs[j].status \in Terminal => ejobs'[j].status = ejobs[j].status
       /\ ijobs[j].status \in Terminal => ijobs'[j].status = ijobs[j].status]_vars

\* C3: after a running Fetch job has been set to paused or cancelled its
\* runner issues no further content-fetch request: no request is issued for
\* a job whose status is paused or cancelled.
C3_NoFetchAfterStop ==
  ~(/\ act.name = "FetchRunNext"
    /\ act.ev = "request"
    /\ act.pre \in {"paused", "cancelled"})

\* C4: resume applied to a job whose status is paused or failed makes it
\* pending, for every kind; applied to any other status it changes nothing.
C4_ResumePausedOrFailed ==
  \A j \in Jobs :
    LET st == JobStatus(kind, j)
    IN ResumeOf(kind, st) = IF st \in {"paused", "failed"} THEN "pending" ELSE st

\* C5: cancel applied to a job in any status that is not terminal
\* (pending, running, paused, failed) makes it cancelled, for every kind.
C5_CancelEveryOpenStatus ==
  \A j \in Jobs :
    LET st == JobStatus(kind, j)
    IN st \in {"pending", "running", "paused", "failed"}
         => CancelOf(kind, st) = "cancelled"

\* C6: an Import job that was paused (at any checkpoint, also in the middle
\* of a page) and resumed delivers every upstream record of both endpoints
\* as an ITEM at least once: when such a job, never cancelled and never
\* failed, is completed and its generators have returned, every upstream
\* record has been delivered.
C6_EveryRecordDelivered ==
  \A j \in JobIds :
    (ijobs[j].status = "completed" /\ ~iended[j] /\ NoImportRun(j))
      => UpstreamRecords \subseteq idelivered[j]

\* C7: the persisted cursor of a Fetch job is the last item that was fully
\* processed, so that a resume after a pause or a job-level failure skips
\* no unprocessed eligible item: while the job rests paused or failed with
\* no runner on it, no document at or below the persisted cursor is still
\* eligible.  (The claim says the same of Embed jobs; Fetch is stated here.)
C7_CursorIsLastProcessed ==
  \A j \in JobIds :
    (fdb[j].status \in {"paused", "failed"} /\ NoFetchRun(j))
      => \A d \in DOMAIN docs : d <= fdb[j].cursor => ~EligibleDoc(d)

\* C8: within one job (stated here for Fetch) the items are processed in strictly increasing
\* id order, also across pause and resume: the cursor never decreases and
\* no id is processed again.
C8_StrictlyIncreasing ==
  [][/\ \A j \in JobIds : fjobs'[j].cursor >= fjobs[j].cursor
     /\ (act'.name = "FetchRunResponse" /\ act'.ev \in {"item_success", "item_failed"})
          => act'.item > fmaxdone[act'.job]]_vars

\* C9: after a retriable provider error the Embed job stays running and the
\* following provider request is for chunks after the failed batch.
C9_RequestAfterFailedBatch ==
  /\ (act.name = "EmbedRunResponse" /\ act.pre = "retriable")
       => ejobs[act.job].status \in {"running", "paused", "cancelled", "pending"}
  /\ \A r \in Runners :
       (erun[r].pc = "await" /\ erun[r].prevfail > 0)
         => Head(erun[r].batch) > erun[r].prevfail

\* C10: after a non-retriable provider error has failed an Embed job no
\* further batch is requested for it: no provider request is issued for a
\* job that rests failed with the provider's error.
C10_NoRequestAfterFatal ==
  ~(/\ act.name = "EmbedRunNext"
    /\ act.ev = "request"
    /\ act.pre = "failed"
    /\ ejobs[act.job].error = "provider")

\* C11: an unknown exception raised while one item is processed in a job's
\* item loop is counted in items_failed and the job goes on with the next
\* item; it does not set the job to failed: the step of a runner that
\* processes an item (the step that follows the fetch of a document) never
\* turns its job failed.
C11_ItemStepNeverFails ==
  [][\A r \in Runners :
       (frun[r].pc = "await" /\ frun'[r].pc # "await"
          /\ fjobs[frun[r].job].status # "failed")
         => fjobs'[frun[r].job].status # "failed"]_vars

C13_PauseInImport ==
  \A j \in JobIds :
    (prun[j].pc = "done" /\ prun[j].ctl = "paused" /\ prun[j].ctl_phase = "import")
      => /\ prun[j].last = "pipeline_paused"
         /\ pjobs[j].status = "paused"
         /\ pjobs[j].import_job_id # 0 => ijobs[pjobs[j].import_job_id].status = "paused"

\* C14: once a running Pipeline job has been paused or cancelled during its
\* EMBED phase, no further embedding batch is requested for its child Embed
\* job: the step that requests a batch is never taken for the child of a
\* Pipeline job that is waiting in EMBED with status paused or cancelled.
C14_NoBatchAfterStop ==
  ~ \E p \in JobIds :
      /\ act.name = "EmbedRunNext"
      /\ act.ev = "request"
      /\ act.job = pjobs[p].embed_job_id
      /\ prun[p].pc = "embed_wait"
      /\ prun[p].ctl_phase = "embed"
      /\ pjobs[p].status \in {"paused", "cancelled"}

\* C15: the phase of a Pipeline job only moves forward through idle, import,
\* chunk, embed, index, done, and a job becomes completed only in phase done
\* with import (unless it was skipped), chunk, embed and index finished in
\* that order.
C15_PhasesForward ==
  [][\A j \in JobIds :
       /\ PhaseIndex(pjobs'[j].phase) >= PhaseIndex(pjobs[j].phase)
       /\ (pjobs'[j].status = "completed" /\ pjobs[j].status # "completed")
            => /\ pjobs'[j].phase = "done"
               /\ prun'[j].finished =
                    (IF prun[j].skip THEN <<>> ELSE <<"import">>) \o <<"chunk", "embed", "index">>]_vars

\* a job that skipped the import and ran a child embed job is completed
C15_Witness ==
  \E j \in JobIds :
    /\ pjobs[j].status = "completed"
    /\ pjobs[j].phase = "done"
    /\ prun[j].skip
    /\ pjobs[j].embed_job_id # 0
    /\ prun[j].finished = <<"chunk", "embed", "index">>

\* C16: last_sync_at is written only by the step that ends a Pipeline run
\* with PIPELINE_COMPLETE, the job completed in phase done with every phase
\* it was to run finished; a run that ends paused, cancelled or failed
\* leaves last_sync_at as it was.
C16_SyncOnlyAtEnd ==
  [][/\ last_sync_at' # last_sync_at
          => \E j \in JobIds :
               /\ prun[j].pc # "done"
               /\ prun'[j].pc = "done"
               /\ prun'[j].last = "pipeline_complete"
               /\ pjobs'[j].status = "completed"
               /\ pjobs'[j].phase = "done"
               /\ prun'[j].finished =
                    (IF prun[j].skip THEN <<>> ELSE <<"import">>) \o <<"chunk", "embed", "index">>
     /\ \A j \in JobIds :
          (/\ prun[j].pc # "done"
           /\ prun'[j].pc = "done"
           /\ prun'[j].last \in {"pipeline_paused", "pipeline_cancelled", "pipeline_failed"})
            => last_sync_at' = last_sync_at]_vars

\* one run has completed and written the setting, and another run has ended
\* paused, cancelled or failed
C16_Witness ==
  /\ last_sync_at = 1
  /\ \E j, k \in JobIds :
       /\ pjobs[j].status = "completed"
       /\ prun[j].last = "pipeline_complete"
       /\ prun[k].pc = "done"
       /\ prun[k].last \in {"pipeline_paused", "pipeline_cancelled", "pipeline_failed"}

\* C17: a Pipeline run that finds last_sync_at persisted by an earlier run
\* performs its import incrementally: having read the timestamp it goes on
\* to request the documents updated after it, and does not end at the call
\* that was to start the import.
C17_IncrementalImport ==
  \A j \in JobIds :
    prun[j].since > 0
      => ~ (prun[j].pc = "done" /\ pjobs[j].error = "type_error" /\ prun[j].finished = <<>>)

\* C18: a start request for a Fetch or an Embed job made while a job of
\* that kind is running creates no job, and the job id of its response is
\* the id of a running job of that kind.
C18_StartWhileRunning ==
  [][/\ (act'.name = "api_fetch_start" /\ \E j \in JobIds : fjobs[j].status = "running")
          => /\ fjobs' = fjobs
             /\ fdb' = fdb
             /\ freg' = freg
             /\ act'.ev = "error"
             /\ fjobs[act'.job].status = "running"
     /\ (act'.name = "api_embed_start" /\ \E j \in JobIds : ejobs[j].status = "running")
          => /\ ejobs' = ejobs
             /\ edb' = edb
             /\ ereg' = ereg
             /\ act'.ev = "error"
             /\ ejobs[act'.job].status = "running"]_vars

\* a start request has just been answered with the id of the running job
C18_Witness ==
  /\ act.name \in {"api_fetch_start", "api_embed_start"}
  /\ act.ev = "error"
  /\ JobStatus(kind, act.job) = "running"
  /\ Cardinality(Jobs) = 1

\* C19: a document that has a fetch-failure row is not selected for fetching
\* by any Fetch job as long as the row is there: the batch a run takes from
\* get_documents_for_fetch holds no document with a failure row.
C19_FailedNotSelected ==
  [][\A r \in Runners :
       (frun[r].pc = "loop" /\ frun[r].batch = <<>> /\ frun'[r].pc = "await")
         => \A d \in {frun'[r].doc} \cup SeqRange(frun'[r].batch) :
              docs[d].failure = "none"]_vars

\* job 2, selecting from cursor 0, has just found nothing to fetch and
\* completed, while document 1 has no full text and a failure row that
\* job 1 wrote
C19_Witness ==
  /\ act.name = "FetchRunNext"
  /\ act.ev = "completed"
  /\ act.job = 2
  /\ fjobs[2].cursor = 0
  /\ Len(docs) = 1
  /\ docs[1].failure # "none"
  /\ ~docs[1].fulltext
  /\ docs[1].failedby = {1}
  /\ docs[1].savedby = {}

\* C20: the bulk retry clears exactly the fetch-failure rows whose error
\* type is retriable (timeout, http_5xx, connection_error) and leaves the
\* rows of the other error types.
C20_RetryClearsRetriable ==
  [][act'.name = "api_fetch_retry_failed"
       => \A d \in DOMAIN docs :
            docs'[d].failure =
              IF docs[d].failure \in RETRIABLE_ERRORS THEN "none" ELSE docs[d].failure]_vars

\* C21: after any sequence of embedding operations (Embed jobs and the bulk
\* embedding endpoints, overlapping runs included) every chunk has at most
\* one embedding row for the (provider, model).
C21_OneEmbeddingPerChunk == \A c \in DOMAIN chunks : chunks[c] <= 1

C23_PendingCount ==
  act.name = "count_chunks_for_embedding" =>
    /\ act.item >= 0
    /\ act.item = Cardinality({c \in store.chunks :
                      ~ \E e \in store.emb : e.chunk = c.id /\ e.model = act.ev})

\* counted while the model has an orphaned row, an embedded chunk and a
\* pending chunk
C23_Witness ==
  /\ act.name = "count_chunks_for_embedding"
  /\ \E e \in store.emb : e.model = act.ev /\ e.chunk \notin LiveChunks
  /\ act.item > 0
  /\ act.item < Cardinality(store.chunks)

\* C24: an Import run a second time against the same upstream state creates
\* no new Document row and no new Highlight row.
C24_SecondImportAddsNothing ==
  [][(lib.run = 2 /\ lib'.run = 2)
       => /\ lib'.lastdoc = lib.lastdoc
          /\ Cardinality(lib'.docs) = Cardinality(lib.docs)
          /\ lib'.hls \subseteq lib.hls]_vars

\* the second Import is over; upstream has a record without URL, a book with
\* a highlight, and two records of one source with the same canonical URL
C24_Witness ==
  /\ lib.run = 2
  /\ lib.pos = Len(lib.up)
  /\ lib.hls # {}
  /\ \E i \in DOMAIN lib.up : lib.up[i].url = ""
  /\ \E i, k \in DOMAIN lib.up :
       /\ i < k
       /\ lib.up[i].source = lib.up[k].source
       /\ lib.up[i].url # lib.up[k].url
       /\ normalize_url(lib.up[i].url) = normalize_url(lib.up[k].url)

\* C25: within one Import job, when the export endpoint yields a book whose
\* canonical URL equals that of a document the document endpoint yielded
\* before, the book is a merge: items_merged, not items_imported, is
\* incremented, and persisting the book creates no new Document row.
C25_BookMergesIntoDocument ==
  [][(/\ lib'.pos = lib.pos + 1
      /\ lib.up[lib'.pos].ep = "export"
      /\ readwise_normalize_url(lib.up[lib'.pos].url) # ""
      /\ \E i \in 1..lib.pos :
           /\ lib.up[i].ep = "reader"
           /\ readwise_normalize_url(lib.up[i].url) = readwise_normalize_url(lib.up[lib'.pos].url))
       => /\ lib'.merged = lib.merged + 1
          /\ lib'.imported = lib.imported
          /\ lib'.lastdoc = lib.lastdoc
          /\ Cardinality(lib'.docs) = Cardinality(lib.docs)]_vars

\* C26: for each job kind, after a process restart the in-memory registry
\* holds every persisted job whose status is not completed, with the status,
\* cursor and counters of the persisted row.
C26_RestartRehydrates ==
  act.name = "Restart" =>
    \A j \in JobIds :
      /\ fdb[j].status \notin {"absent", "completed"} => (j \in freg /\ fjobs[j] = fdb[j])
      /\ edb[j].status \notin {"absent", "completed"} => (j \in ereg /\ ejobs[j] = edb[j])
      /\ idb[j].status \notin {"absent", "completed"} => (j \in ireg /\ ijobs[j] = idb[j])

\* restarted with a running job that has progressed and a completed job
C26_Witness ==
  /\ act.name = "Restart"
  /\ \E j, k \in JobIds :
       /\ fdb[j].status = "running"
       /\ fdb[j].cursor > 0
       /\ j \in freg
       /\ fdb[k].status = "completed"
       /\ k \notin freg

\* C27: no job is removed from its registry or from its table while its
\* status is running, whatever the interleaving of DELETE requests with
\* stream subscriptions and runner steps.
C27_NoDeleteWhileRunning ==
  [][\A j \in JobIds :
       /\ fjobs[j].status = "running" =>
            /\ j \in freg => j \in freg'
            /\ fdb[j].status # "absent" => fdb'[j].status # "absent"
       /\ ijobs[j].status = "running" =>
            /\ j \in ireg => j \in ireg'
            /\ idb[j].status # "absent" => idb'[j].status # "absent"]_vars

\* C28: every embedding batch an Embed job processes appends exactly one row
\* to the usage ledger, whether the batch succeeded or failed.
C28_OneUsageRowPerBatch ==
  [][(act'.name = "EmbedRunResponse" /\ act'.pre \in {"ok", "retriable", "fatal"})
       => usage' = usage + 1]_vars

\* C29: in every execution of the fetch engine, two consecutive content
\* fetches of one domain are at least that domain's current delay apart, and
\* never less than MIN_DELAY.
C29_RequestsSpaced ==
  [][(act'.name = "wait_for_domain" /\ lim.sent[act'.ev] >= 0)
       => lim'.now - lim.sent[act'.ev] >= Max(MIN_DELAY, lim.runs[act'.run].delay[act'.ev])]_vars

\* C30: after any sequence of record_success and record_failure calls, every
\* domain's delay lies between MIN_DELAY and MAX_DELAY and is MIN_DELAY
\* whenever the outcome last recorded for the domain is a success.
C30_DelayBounds ==
  \A r \in Runners, d \in Domains :
    /\ MIN_DELAY <= lim.runs[r].delay[d]
    /\ lim.runs[r].delay[d] <= MAX_DELAY
    /\ lim.runs[r].out[d] = "success" => lim.runs[r].delay[d] = MIN_DELAY

\* one limiter holds a domain at MAX_DELAY after failures, and another domain
\* back at MIN_DELAY by a success that followed a failure
C30_Witness ==
  \E r \in Runners :
    /\ lim.runs[r].delay["a.example"] = MAX_DELAY
    /\ lim.runs[r].out["a.example"] = "failure"
    /\ lim.runs[r].out["b.example"] = "success"
    /\ act.name = "FetchResult"
    /\ act.ev = "success"

\* C31: when embed gives up on a rate limit it has retried the request
\* MAX_RETRIES (5) times, with a sleep of 2 s before the first retry and
\* twice the previous sleep, at most 60 s, before each later one, every
\* sleep being followed by a retry; after a 429 that carries a quota message
\* and after a 401 no further request is sent.
C31_FiveRetriesThenGiveUp ==
  /\ (prov.pc = "raised" /\ prov.err = "rate_limit") =>
       /\ prov.posts - 1 = MAX_RETRIES
       /\ Len(prov.slept) = prov.posts - 1
  /\ \A i \in 1..Len(prov.slept) :
       prov.slept[i] = IF i = 1 THEN INITIAL_DELAY
                       ELSE IF 2 * prov.slept[i - 1] < EMBED_MAX_DELAY
                            THEN 2 * prov.slept[i - 1] ELSE EMBED_MAX_DELAY
  /\ prov.err \in {"quota", "auth"} => prov.pc = "raised"

\* C32: normalize_url is idempotent: normalizing a normalized URL returns it
\* unchanged, for the function of storage.py and for that of readwise.py.
C32_NormalizeIdempotent == nurl.pc = "twice" => nurl.twice = nurl.once

\* C33: at most one runner executes a given job at any time (stated for
\* Fetch jobs: of the run_fetch_job generators that have set the job running
\* and have not returned, no two hold the same job).
C33_OneRunnerPerJob ==
  \A j \in JobIds :
    Cardinality({r \in Runners : /\ frun[r].job = j
                                 /\ frun[r].pc \notin {"idle", "start", "done"}}) <= 1

\* C34: a run of an Embed job terminates: every answer of the provider
\* either takes the job out of status running or leaves fewer chunks for the
\* run to request (chunks after the cursor without an embedding), so that a
\* run ends after at most as many requests as there are chunks, also when
\* the answer is a retriable error.
C34_EveryAnswerProgresses ==
  [][(act'.name = "EmbedRunResponse" /\ ejobs'[act'.job].status = "running")
       => Cardinality({c \in DOMAIN chunks' : chunks'[c] = 0 /\ c > ejobs'[act'.job].cursor})
            < Cardinality({c \in DOMAIN chunks : chunks[c] = 0 /\ c > ejobs[act'.job].cursor})]_vars

\* C35: the CHUNK phase of a Pipeline run terminates, also when a document
\* with full text yields no chunk: a batch of the phase either ends the phase
\* or leaves fewer documents for get_documents_for_chunking to return.
C35_EveryChunkBatchProgresses ==
  [][(act'.name = "PipeChunk" /\ prun'[act'.job].pc = "chunk")
       => get_documents_for_chunking' < get_documents_for_chunking]_vars

\* C36: a Pipeline job whose child Embed job ended in status failed is not
\* in status completed.
C36_NotCompletedAfterFailedEmbed ==
  \A j \in JobIds :
    (pjobs[j].status = "completed" /\ pjobs[j].embed_job_id # 0)
      => ejobs[pjobs[j].embed_job_id].status # "failed"

\* C37: a deleted job (one that has been created and is neither in the
\* registry nor in the job table) stays deleted: no step of a runner or of a
\* stream puts it back into the registry or into the table.
C37_DeletedStaysDeleted ==
  [][\A j \in JobIds :
       /\ (fjobs[j].status # "absent" /\ j \notin freg /\ fdb[j].status = "absent")
            => (j \notin freg' /\ fdb'[j].status = "absent")
       /\ (ijobs[j].status # "absent" /\ j \notin ireg /\ idb[j].status = "absent")
            => (j \notin ireg' /\ idb'[j].status = "absent")]_vars

\* C38: the event stream of a Pipeline run terminates: the end-of-stream
\* marker is put at most once, behind every event of the pipeline body, the
\* consumer gets the events in the order they were put, and every run that
\* has been started leads to the consumer getting the marker.
C38_StreamTerminates ==
  /\ [](\A j \in JobIds :
          /\ pq[j].markers <= 1
          /\ \A i \in 1..Len(pq[j].queue) : pq[j].queue[i] = "None" => i = Len(pq[j].queue)
          /\ pq[j].closed => pq[j].queue = <<>>)
  /\ \A j \in JobIds : (prun[j].pc = "start") ~> pq[j].closed

\* C39 (as claimed): no thread holds the job-registry mutex or the
\* rate-limiter mutex while an I/O operation of it (database write or
\* commit, HTTP call, sleep) is in progress.
C39_NoLockAcrossIO ==
  \A t \in Threads : th[t].io # "none" => (locks["reg"] # t /\ locks["lim"] # t)

\* C39 (amended): the rate-limiter mutex is held across no I/O operation,
\* and the job-registry mutex across no HTTP call and no sleep: it is held
\* across the database write and commit of the method that took it only.
C39_NoLockAcrossSleepOrHttp ==
  \A t \in Threads :
    th[t].io # "none" =>
      /\ locks["lim"] # t
      /\ locks["reg"] = t => th[t].io \in {"db_execute", "db_commit"}

\* a thread sleeps in wait_for_domain while another thread has taken the
\* rate-limiter mutex
C39_Witness ==
  \E t, u \in Threads :
    /\ th[t].op = "wait_for_domain" /\ th[t].io = "sleep"
    /\ locks["lim"] = u
    /\ u # t

\* C40 (as claimed): a digest job that is completed has a stored digest: its
\* digest_id is the id that the COMPILE phase returned, the id of a row of
\* generated_digests written by this job.
C40_CompletedHasDigest ==
  \A j \in JobIds :
    dig.jobs[j].status = "completed" =>
      /\ dig.jobs[j].digest_id # 0
      /\ dig.jobs[j].digest_id = dig.jobs[j].ret
      /\ dig.jobs[j].digest_id \in DOMAIN dig.rows
      /\ dig.rows[dig.jobs[j].digest_id] = j

\* C40 (amended): a completed digest job that found chunks carries the id
\* that COMPILE returned, the id of its own row; a completed job that found
\* no chunk has no digest_id, wrote no row and carries the message in error.
C40_CompletedWithChunksHasDigest ==
  \A j \in JobIds :
    dig.jobs[j].status = "completed" =>
      IF dig.jobs[j].chunks_found > 0
        THEN /\ dig.jobs[j].digest_id # 0
             /\ dig.jobs[j].digest_id = dig.jobs[j].ret
             /\ dig.jobs[j].digest_id \in DOMAIN dig.rows
             /\ dig.rows[dig.jobs[j].digest_id] = j
        ELSE /\ dig.jobs[j].digest_id = 0
             /\ dig.jobs[j].error = "Keine Chunks im Zeitraum gefunden"
             /\ \A i \in DOMAIN dig.rows : dig.rows[i] # j

\* two jobs are completed through COMPILE, the second with the second row
C40_Witness ==
  /\ \A j \in JobIds : dig.jobs[j].status = "completed" /\ dig.jobs[j].chunks_found > 0
  /\ \E j \in JobIds : dig.jobs[j].digest_id = 2

====
